---------------------------- MODULE Spec2Model ----------------------------
(***************************************************************************)
(* Model of the sampling core of the ssp package: SamplingConfig,          *)
(* SamplingStrategy, GridSampling, RoadNetworkSampling and the coordinate  *)
(* helpers; and of its performance package: DiskCache shared by threads    *)
(* and ParallelProcessor.map with its pool of worker processes.            *)
(*                                                                         *)
(* Numbers.  Python floats are modelled as fixed-point integers with FP    *)
(* sub-units per unit (metre or degree).  FP = 2^20, so that the 20        *)
(* halvings of optimize_spacing_for_target_n stay exact for integral       *)
(* search limits, as they do in IEEE doubles.                              *)
(***************************************************************************)
EXTENDS Integers, Sequences, FiniteSets, TLC

VARIABLES
    config,                \* instance -> Option(SamplingConfig)    (self.config)
    sample_points,         \* instance -> Option(Seq(point record)) (self._sample_points)
    generation_timestamp,  \* instance -> Option(time)              (self._generation_timestamp)
    np_seed,               \* Option(seed): state of numpy's global RNG seed
    network_type,          \* road instance: self.network_type
    road_types,            \* road instance: Option(set of tags), self.road_types
    road_graph,            \* road instance: Option(graph), self._road_graph
    lastOp,                \* the last call made by the caller and its outcome
    cache_files,           \* DiskCache: key -> Option(content of the key's .pkl file)
    metadata,              \* DiskCache: key -> Option(entry)         (self.metadata)
    lock,                  \* DiskCache: Option(thread holding it)    (self.lock)
    calls,                 \* thread -> its DiskCache call and where it stands
    map_run                \* ParallelProcessor: the map() call, its futures and results

samplingVars == <<config, sample_points, generation_timestamp, np_seed,
                  network_type, road_types, road_graph, lastOp>>
performanceVars == <<cache_files, metadata, lock, calls, map_run>>
vars == <<config, sample_points, generation_timestamp, np_seed,
          network_type, road_types, road_graph, lastOp,
          cache_files, metadata, lock, calls, map_run>>

-----------------------------------------------------------------------------
(* Bounds of the model *)

MaxLattice == 121     \* largest candidate lattice (nx * ny) a generate() call scans

-----------------------------------------------------------------------------
(* Optional values: None is the empty tuple, a present value v is <<v>> *)

None == <<>>
Some(v) == <<v>>
IsNone(o) == o = <<>>
Get(o) == o[1]

Max(a, b) == IF a >= b THEN a ELSE b
Min(a, b) == IF a <= b THEN a ELSE b
Abs(a) == IF a >= 0 THEN a ELSE 0 - a

FP == 2^20
M(n) == n * FP        \* n whole units as a fixed-point value

\* floor(a * m / FP) without leaving 32 bits, for 0 <= m < 2^17
MulFP(a, m) ==
    LET q  == a \div FP
        r  == a % FP
        r1 == r \div 1024
        r0 == r % 1024
    IN  q * m + (r1 * m + (r0 * m) \div 1024) \div 1024

\* Python int(a / b) for a float quotient: truncation towards zero (b # 0)
TruncDiv(a, b) ==
    IF (a >= 0 /\ b > 0) \/ (a <= 0 /\ b < 0)
    THEN Abs(a) \div Abs(b)
    ELSE 0 - (Abs(a) \div Abs(b))

\* ceil(a / b) for b > 0
CeilDiv(a, b) == 0 - ((0 - a) \div b)

-----------------------------------------------------------------------------
(* Boundaries handed to generate(): shapely geometries and non-geometries *)

Shape(kind, minx, miny, maxx, maxy) ==
    [kind |-> kind, minx |-> minx, miny |-> miny, maxx |-> maxx, maxy |-> maxy]

\* box(minx, miny, maxx, maxy)
Box(minx, miny, maxx, maxy) == Shape("box", minx, miny, maxx, maxy)
\* Polygon([(minx, miny), (maxx, miny), (minx, maxy)]) with equal legs
Tri(minx, miny, leg) == Shape("tri", minx, miny, minx + leg, miny + leg)
\* Polygon([(0, 0), (1, 1), (1, 0), (0, 1)]): self-intersecting, signed area 0
Bowtie == Shape("bowtie", 0, 0, M(1), M(1))
\* Polygon(): the empty polygon (valid, no coordinates)
EmptyPolygon == Shape("empty", 0, 0, 0, 0)
\* a polygon that is valid and not empty but has no area
ZeroAreaPolygon == Shape("zeroarea", 0, 0, M(1), 0)
\* "not a polygon": a value that is no shapely Polygon
NotAPolygon == Shape("notpoly", 0, 0, 0, 0)

IsPolygon(b) == b.kind # "notpoly"
IsValid(b) == b.kind # "bowtie"
\* an emptiness check that never fires
IsEmptyNever(b) == FALSE
IsEmpty(b) == b.kind = "empty"

\* boundary.bounds
Bounds(b) == <<b.minx, b.miny, b.maxx, b.maxy>>

\* product of two fixed-point lengths in whole square units (exact when one
\* factor is a whole number of units, else short by less than 3 units)
AreaUnits(w, h) ==
    LET wi == w \div FP
        wf == w % FP
        hi == h \div FP
        hf == h % FP
    IN  wi * hi + (wi * hf) \div FP + (hi * wf) \div FP

\* boundary.area in whole square units
Area(b) ==
    CASE b.kind = "box" -> AreaUnits(b.maxx - b.minx, b.maxy - b.miny)
      [] b.kind = "tri" -> AreaUnits(b.maxx - b.minx, b.maxy - b.miny) \div 2
      [] OTHER -> 0

\* boundary.area == 0 (exact, not rounded to whole units)
AreaIsZero(b) ==
    CASE b.kind \in {"box", "tri"} -> b.maxx = b.minx \/ b.maxy = b.miny
      [] OTHER -> TRUE

\* boundary.covers(Point(x, y)): interior or edge; what contains() is not
Covers(b, x, y) ==
    CASE b.kind = "box" ->
            b.minx <= x /\ x <= b.maxx /\ b.miny <= y /\ y <= b.maxy
      [] b.kind = "tri" ->
            b.minx <= x /\ b.miny <= y
            /\ (x - b.minx) + (y - b.miny) <= b.maxx - b.minx
      [] OTHER -> FALSE
\* boundary.contains(Point(x, y)): the point is in the interior of the polygon
Contains(b, x, y) ==
    CASE b.kind = "box" ->
            b.minx < x /\ x < b.maxx /\ b.miny < y /\ y < b.maxy
      [] b.kind = "tri" ->
            b.minx < x /\ b.miny < y
            /\ (x - b.minx) + (y - b.miny) < b.maxx - b.minx
      [] OTHER -> FALSE

-----------------------------------------------------------------------------
(* ssp/utils/coordinates.py *)

\* crs.upper() on the identifiers the model uses
Upper(crs) ==
    CASE crs = "epsg:4326" -> "EPSG:4326"
      [] crs = "epsg:3857" -> "EPSG:3857"
      [] OTHER -> crs

\* 1000 * cos(latitude), tabulated every 15 degrees; latitude in whole degrees
CosE3(lat) ==
    LET a == Abs(lat)
    IN  CASE a < 8  -> 1000
          [] a < 23 -> 966
          [] a < 38 -> 866
          [] a < 53 -> 707
          [] a < 68 -> 500
          [] a < 83 -> 259
          [] OTHER  -> 0

\* avg_meters_per_degree = (111132.0 + 111320.0 * cos(lat)) / 2, in whole metres
AvgMetersPerDegree(lat) == (111132000 + 111320 * CosE3(lat)) \div 2000

\* the default latitude of meters_to_degrees / degrees_to_meters
DefaultLatitude == 45

\* meters_to_degrees(meters, latitude); latitude is an Option of whole degrees
meters_to_degrees(meters, latitude) ==
    IF meters = 0 THEN 0
    ELSE LET lat == IF IsNone(latitude) THEN DefaultLatitude ELSE Get(latitude)
         IN  TruncDiv(meters, AvgMetersPerDegree(lat))

\* degrees_to_meters(degrees, latitude), result in whole metres
degrees_to_meters(degrees, latitude) ==
    IF degrees = 0 THEN 0
    ELSE LET lat == IF IsNone(latitude) THEN DefaultLatitude ELSE Get(latitude)
         IN  MulFP(degrees, AvgMetersPerDegree(lat))

\* (miny + maxy) / 2, in whole degrees
CenterLatitude(miny, maxy) == ((miny + maxy) \div 2) \div FP

estimate_center_latitude(b) == CenterLatitude(b.miny, b.maxy)

\* convert_spacing_for_crs(spacing_meters, crs, boundary)
convert_spacing_for_crs(spacing_meters, crs, boundary) ==
    IF spacing_meters = 0 THEN 0
    ELSE IF Upper(crs) = "EPSG:4326"
         THEN meters_to_degrees(spacing_meters,
                  IF IsNone(boundary) THEN None
                  ELSE Some(estimate_center_latitude(Get(boundary))))
         ELSE spacing_meters

-----------------------------------------------------------------------------
(* ssp/sampling/base.py: SamplingConfig *)

SamplingConfig(spacing, crs, seed) ==
    [spacing |-> spacing, crs |-> crs, seed |-> seed, boundary |-> None]

\* SamplingConfig._validate: the reason of the ConfigurationError, or "ok"
ConfigValidate(spacing, crs, seed) ==
    IF spacing <= 0 THEN "spacing must be positive"
    ELSE IF crs = "" THEN "crs must be a non-empty string"
    ELSE IF seed < 0 THEN "seed must be non-negative"
    ELSE "ok"

\* a generate() that does not validate its boundary
ValidateBoundarySkipped(b) == <<"ok", "ok">>
\* SamplingStrategy._validate_boundary: <<exception kind, reason>>
ValidateBoundary(b) ==
    IF ~IsPolygon(b) THEN <<"TypeError", "boundary must be shapely Polygon">>
    ELSE IF ~IsValid(b) THEN <<"BoundaryError", "boundary is not a valid polygon">>
    ELSE IF IsEmpty(b) THEN <<"BoundaryError", "boundary cannot be empty">>
    ELSE IF AreaIsZero(b) THEN <<"BoundaryError", "boundary must have non-zero area">>
    ELSE <<"ok", "ok">>

-----------------------------------------------------------------------------
(* String formatting of sample ids *)

RECURSIVE Digits(_)
\* the decimal digits of n >= 0, most significant first
Digits(n) == IF n < 10 THEN <<n>> ELSE Append(Digits(n \div 10), n % 10)

\* format(n, "0{w}d"): zero-padded to at least w digits
ZeroPad(n, w) ==
    LET d == Digits(n)
    IN  IF Len(d) >= w THEN d
        ELSE [k \in 1..w |-> IF k <= w - Len(d) THEN 0 ELSE d[k - (w - Len(d))]]

\* the character "_" among the digit characters 0..9
Underscore == 10

\* an id whose index fields are cut to their last four digits
GridSampleIdFourDigits(name, i, j) ==
    <<name, ZeroPad(i % 10000, 4) \o <<Underscore>> \o ZeroPad(j % 10000, 4)>>
\* f"{self.strategy_name}_{i:04d}_{j:04d}": the strategy name and the
\* characters that follow its underscore
GridSampleId(name, i, j) ==
    <<name, ZeroPad(i, 4) \o <<Underscore>> \o ZeroPad(j, 4)>>

\* f"{self.strategy_name}_{points_generated:05d}"
RoadSampleId(name, points_generated) == <<name, ZeroPad(points_generated, 5)>>

-----------------------------------------------------------------------------
(* The state of one strategy instance, as the methods read and write it *)

Inst(cfg, pts, ts) == [config |-> cfg, sample_points |-> pts, generation_timestamp |-> ts]

\* the result of a method call: new instance state, exception kind ("ok" when
\* the call returned), reason, the global seed the call leaves behind, and the
\* value handed to the caller (None until Returning sets it)
Result(st, kind, reason, seed) ==
    [st |-> st, kind |-> kind, reason |-> reason, seed |-> seed, ret |-> None]

\* `return gdf`: the call's result with the table it hands to the caller
Returning(res, gdf) == [res EXCEPT !.ret = Some(gdf)]

\* a generate() that appends the new rows to the table it already holds
StoredPointsAppended(st, gdf) ==
    IF IsNone(st.sample_points) THEN Some(gdf) ELSE Some(Get(st.sample_points) \o gdf)
\* self._sample_points = gdf: the value generate() leaves in the attribute
StoredPoints(st, gdf) == Some(gdf)

-----------------------------------------------------------------------------
(* ssp/sampling/grid.py: GridSampling.generate *)

GridStrategyName == "grid_sampling"

\* len(np.arange(start, stop, step)) for step # 0
ArangeLen(start, stop, step) ==
    IF step > 0
    THEN Max(0, CeilDiv(stop - start, step))
    ELSE Max(0, CeilDiv(start - stop, 0 - step))

\* ladders stepped by the default spacing, whatever the configuration says
ActualSpacingDefault(cfg, b) == convert_spacing_for_crs(M(100), cfg.crs, Some(b))
\* the converted spacing generate() steps the ladders by
ActualSpacing(cfg, b) == convert_spacing_for_crs(cfg.spacing, cfg.crs, Some(b))

\* len(x_coords), len(y_coords)
GridNx(cfg, b) == ArangeLen(b.minx, b.maxx + ActualSpacing(cfg, b), ActualSpacing(cfg, b))
GridNy(cfg, b) == ArangeLen(b.miny, b.maxy + ActualSpacing(cfg, b), ActualSpacing(cfg, b))

\* total_potential: the number of candidates of the lattice (saturating at
\* 2^30, far beyond any lattice the model scans)
TotalPotential(cfg, b) ==
    IF ActualSpacing(cfg, b) = 0 THEN 0
    ELSE IF GridNx(cfg, b) > 2^15 \/ GridNy(cfg, b) > 2^15 THEN 2^30
    ELSE GridNx(cfg, b) * GridNy(cfg, b)

\* a ladder of cell centres
ArangeCentred(start, step, i) == start + i * step + step \div 2
\* np.arange(start, stop, step)[i]
Arange(start, step, i) == start + i * step

\* a double loop without the spatial filter
GridKeepAll(b, x, y) == TRUE
\* the spatial filter of the double loop: keep the candidate or not
GridKeep(b, x, y) == Contains(b, x, y)

\* a row whose position is jittered by the seed
GridPointJittered(cfg, b, t, actual_spacing, i, j) ==
    [x |-> b.minx + i * actual_spacing + cfg.seed,
     y |-> b.miny + j * actual_spacing,
     sample_id |-> GridSampleId(GridStrategyName, i, j),
     strategy |-> GridStrategyName,
     timestamp |-> t,
     grid_x |-> i,
     grid_y |-> j,
     spacing_m |-> cfg.spacing]
\* the row appended for candidate (i, j), actual_spacing being the converted
\* spacing
GridPoint(cfg, b, t, actual_spacing, i, j) ==
    [x |-> Arange(b.minx, actual_spacing, i),
     y |-> Arange(b.miny, actual_spacing, j),
     sample_id |-> GridSampleId(GridStrategyName, i, j),
     strategy |-> GridStrategyName,
     timestamp |-> t,
     grid_x |-> i,
     grid_y |-> j,
     spacing_m |-> cfg.spacing]

\* the points list built by the double loop, i outer and j inner
GridPoints(cfg, b, t) ==
    LET Keep(p) == GridKeep(b, p.x, p.y)
        Cand(s, nx, ny) ==
            [k \in 1..(nx * ny) |-> GridPoint(cfg, b, t, s, (k - 1) \div ny, (k - 1) % ny)]
    IN  CHOOSE pts \in {SelectSeq(Cand(s, nx, ny), Keep) :
                           s \in {ActualSpacing(cfg, b)},
                           nx \in {GridNx(cfg, b)}, ny \in {GridNy(cfg, b)}} : TRUE

\* GridSampling.generate(boundary) at time t on instance state st
GridGenerate(st, b, t, seed) ==
    LET v == ValidateBoundary(b)
        cfg == Get(st.config)
        cfg1 == [cfg EXCEPT !.boundary = Some(b)]
        st1 == [st EXCEPT !.config = Some(cfg1), !.generation_timestamp = Some(t)]
    IN  IF v[1] # "ok" THEN Result(st, v[1], v[2], seed)
        ELSE IF ActualSpacing(cfg1, b) = 0
        THEN Result(st1, "ArangeError", "zero step", Some(cfg.seed))
        ELSE CHOOSE r \in
               {Returning(Result([st1 EXCEPT !.sample_points = StoredPoints(st1, gdf)],
                                 "ok", "ok", Some(cfg.seed)), gdf) :
                    gdf \in {GridPoints(cfg1, b, t)}} : TRUE

-----------------------------------------------------------------------------
(* ssp/sampling/grid.py: GridSampling.optimize_spacing_for_target_n *)

\* range(20): the number of binary-search iterations
OptimizeIterations == 20

\* max_possible_points, for a converted minimum spacing that is not zero
\* (saturating at 2^30, above every target the model asks for)
MaxPossiblePoints(cfg, b, min_spacing) ==
    LET min_actual == convert_spacing_for_crs(min_spacing, cfg.crs, Some(b))
        x_max_count == TruncDiv(b.maxx - b.minx, min_actual) + 1
        y_max_count == TruncDiv(b.maxy - b.miny, min_actual) + 1
    IN  IF Abs(x_max_count) > 2^15 \/ Abs(y_max_count) > 2^15 THEN 2^30
        ELSE x_max_count * y_max_count

\* the record the search hands back: the call's Result plus the number of
\* generate() trials it ran; kind "beyond" marks a trial whose lattice is
\* larger than the model scans
OptResult(st, kind, reason, seed, trials) ==
    [st |-> st, kind |-> kind, reason |-> reason, seed |-> seed, trials |-> trials,
     ret |-> None, history |-> <<>>]

\* `return best_gdf`
ReturningBest(res, best) == [res EXCEPT !.ret = best]

\* the completed trials with one more: the spacing the trial ran with and the
\* number of points it produced
AfterTrial(history, spacing, n) == Append(history, [spacing |-> spacing, n |-> n])

\* the search's result with the trials it completed
WithHistory(res, history) == [res EXCEPT !.history = history]

\* a search that lets a later trial of equal distance replace the best one
BetterTrialOrEqual(diff, best_diff) == IsNone(best_diff) \/ diff <= Get(best_diff)
\* whether a trial with this many points replaces best_gdf (diff < best_diff)
BetterTrial(diff, best_diff) == IsNone(best_diff) \/ diff < Get(best_diff)

\* the for loop, from iteration `it` (0-based) on; best is Option(best_gdf),
\* best_diff is Option(diff) with None standing for float('inf'). Trial is one
\* pass of the loop body over the loop's variables v, whose result is set once
\* the function has returned or raised; Trials runs n passes
OptimizeLoop(st, b, t, seed, target_n, low, high, best, best_diff, it, history) ==
    LET Trial(v) ==
          IF ~IsNone(v.result) THEN v
          ELSE IF v.it >= OptimizeIterations
          THEN [v EXCEPT !.result =
                   Some(WithHistory(
                          ReturningBest(OptResult([v.st EXCEPT !.sample_points = v.best],
                                                  "ok", "ok", v.seed, v.it), v.best),
                          v.history))]
          ELSE
            LET mid_spacing == (v.low + v.high) \div 2
                cfg1 == [Get(v.st.config) EXCEPT !.spacing = mid_spacing]
                st1 == [v.st EXCEPT !.config = Some(cfg1)]
            IN  IF TotalPotential(cfg1, b) > MaxLattice
                THEN [v EXCEPT !.result =
                         Some(OptResult(st1, "beyond", "beyond", v.seed, v.it))]
                ELSE
                  LET Rest(g) ==
                        IF g.kind # "ok"
                        THEN [v EXCEPT !.result =
                                 Some(OptResult(g.st, g.kind, g.reason, g.seed, v.it + 1))]
                        ELSE
                          LET gdf == Get(g.st.sample_points)
                              diff == Abs(Len(gdf) - target_n)
                              better == BetterTrial(diff, v.best_diff)
                              best1 == IF better THEN Some(gdf) ELSE v.best
                              best_diff1 == IF better THEN Some(diff) ELSE v.best_diff
                              low1 == IF Len(gdf) < target_n THEN v.low ELSE mid_spacing
                              high1 == IF Len(gdf) < target_n THEN mid_spacing ELSE v.high
                              history1 == AfterTrial(v.history, mid_spacing, Len(gdf))
                          IN  IF diff = 0
                              THEN [v EXCEPT !.result =
                                     Some(WithHistory(
                                       ReturningBest(
                                         OptResult([g.st EXCEPT !.sample_points = best1],
                                                   "ok", "ok", g.seed, v.it + 1), best1),
                                       history1))]
                              ELSE [v EXCEPT !.st = g.st, !.seed = g.seed,
                                             !.low = low1, !.high = high1,
                                             !.best = best1, !.best_diff = best_diff1,
                                             !.it = v.it + 1, !.history = history1]
                  IN  CHOOSE r \in {Rest(g) : g \in {GridGenerate(st1, b, t, v.seed)}} : TRUE
        RECURSIVE Trials(_, _)
        Trials(v, n) ==
          IF n <= 0 THEN v
          ELSE IF n = 1 THEN Trial(v)
          ELSE CHOOSE r \in {Trials(h, n - n \div 2) : h \in {Trials(v, n \div 2)}} : TRUE
    IN  Get(Trials([st |-> st, seed |-> seed, low |-> low, high |-> high,
                    best |-> best, best_diff |-> best_diff, it |-> it,
                    history |-> history, result |-> None],
                   OptimizeIterations - it + 1).result)

\* GridSampling.optimize_spacing_for_target_n(boundary, target_n, min_spacing,
\* max_spacing) at time t on instance state st
OptimizeSpacing(st, b, t, seed, target_n, min_spacing, max_spacing) ==
    LET v == ValidateBoundary(b)
        cfg == Get(st.config)
    IN  IF target_n <= 0
        THEN OptResult(st, "ValueError", "target_n must be positive", seed, 0)
        ELSE IF min_spacing >= max_spacing
        THEN OptResult(st, "ValueError",
                       "min_spacing must be less than max_spacing", seed, 0)
        ELSE IF v[1] # "ok" THEN OptResult(st, v[1], v[2], seed, 0)
        ELSE IF convert_spacing_for_crs(min_spacing, cfg.crs, Some(b)) = 0
        THEN OptResult(st, "ZeroDivisionError", "float division by zero", seed, 0)
        ELSE IF target_n > MaxPossiblePoints(cfg, b, min_spacing)
        THEN OptResult(st, "ValueError", "Target point count is too high", seed, 0)
        ELSE OptimizeLoop(st, b, t, seed, target_n, min_spacing, max_spacing,
                          None, None, 0, <<>>)

-----------------------------------------------------------------------------
(* ssp/sampling/base.py: SamplingStrategy queries *)

NoPointsReason == "No sample points generated yet. Call generate() method first."

RECURSIVE DecimalQuot(_, _, _)
\* <<floor(n * 10^k / a), remainder>> for a > 0, by long division
DecimalQuot(n, a, k) ==
    IF k = 0 THEN <<n \div a, n % a>>
    ELSE LET p == DecimalQuot(n, a, k - 1)
         IN  <<p[1] * 10 + (p[2] * 10) \div a, (p[2] * 10) % a>>

\* round(x, d) of x = n / a, as an integer count of 10^-d
RoundQuot(n, a, d) == (DecimalQuot(n, a, d + 1)[1] + 5) \div 10

SetMin(S) == CHOOSE m \in S : \A n \in S : m <= n
SetMax(S) == CHOOSE m \in S : \A n \in S : m >= n

\* gdf.total_bounds of a non-empty point set
TotalBounds(pts) ==
    LET xs == {pts[k].x : k \in 1..Len(pts)}
        ys == {pts[k].y : k \in 1..Len(pts)}
    IN  <<SetMin(xs), SetMin(ys), SetMax(xs), SetMax(ys)>>

\* a * b for a, b >= 0, saturating at 2^30 (areas beyond 1073 km2)
SatMul(a, b) ==
    IF a = 0 \/ b = 0 THEN 0
    ELSE IF a > 2^30 \div b THEN 2^30
    ELSE a * b

\* the test the metrics code uses to pick the degrees branch
MetricsIsGeographic(crs) == crs = "EPSG:4326"

\* area of an extent <<minx, miny, maxx, maxy>> as the metrics code derives it:
\* [m2: whole square metres, positive: whether the exact area is > 0]
ExtentArea(crs, bnd, plainArea) ==
    LET width == bnd[3] - bnd[1]
        height == bnd[4] - bnd[2]
        center_lat == CenterLatitude(bnd[2], bnd[4])
    IN  IF MetricsIsGeographic(crs)
        THEN [m2 |-> SatMul(degrees_to_meters(width, Some(center_lat)),
                            degrees_to_meters(height, None)),
              positive |-> width > 0 /\ height > 0]
        ELSE [m2 |-> plainArea, positive |-> width > 0 /\ height > 0]

\* round(area_km2, 4), counted in units of 0.0001 km2
RoundArea(m2) == (m2 + 50) \div 100

\* the value that stands for every density above 2 points per square metre
DensityCap == 2^30

\* a density derived from the area as the record reports it
RoundDensityOfReported(n, area) ==
    IF RoundArea(area.m2) = 0 THEN 0
    ELSE RoundQuot(n * 10000, RoundArea(area.m2), 2)
\* round(n_points / area_km2, 2), counted in hundredths
RoundDensity(n, area) ==
    IF ~area.positive THEN 0
    ELSE IF area.m2 <= n \div 2 THEN DensityCap
    ELSE IF area.m2 > 10^8 THEN RoundQuot(n * 1000, area.m2 \div 1000, 2)
    ELSE RoundQuot(n * 1000000, area.m2, 2)

\* str(gdf.crs): pyproj prints the authority code in upper case
CrsStr(crs) == Upper(crs)

Metrics(n, area_km2, density, bnd, crs) ==
    [n_points |-> n, area_km2 |-> area_km2, density_pts_per_km2 |-> density,
     bounds |-> bnd, crs |-> crs]

\* the area the empty-GeoDataFrame branch reports
EmptyArea(cfg) ==
    IF IsNone(cfg.boundary) THEN 0
    ELSE RoundArea(ExtentArea(cfg.crs, Bounds(Get(cfg.boundary)),
                              Area(Get(cfg.boundary))).m2)

\* SamplingStrategy.calculate_coverage_metrics: <<kind, reason, Option(metrics)>>
CoverageMetrics(st) ==
    IF IsNone(st.sample_points)
    THEN <<"SamplingError", NoPointsReason, None>>
    ELSE
      LET gdf == Get(st.sample_points)
          cfg == Get(st.config)
      IN  IF Len(gdf) = 0
          THEN <<"ok", "ok",
                 Some(Metrics(0, EmptyArea(cfg), 0, <<0, 0, 0, 0>>, CrsStr(cfg.crs)))>>
          ELSE
            LET bnd == TotalBounds(gdf)
                area == ExtentArea(cfg.crs, bnd,
                                   AreaUnits(bnd[3] - bnd[1], bnd[4] - bnd[2]))
            IN  <<"ok", "ok",
                  Some(Metrics(Len(gdf), RoundArea(area.m2),
                               RoundDensity(Len(gdf), area), bnd, CrsStr(cfg.crs)))>>

\* a get_sample_points that hands back self._sample_points unchecked
GetSamplePointsUnchecked(st) == <<"ok", "ok", st.sample_points>>
\* SamplingStrategy.get_sample_points: <<kind, reason, value>>
GetSamplePoints(st) ==
    IF IsNone(st.sample_points) THEN <<"ValueError", NoPointsReason, None>>
    ELSE <<"ok", "ok", st.sample_points>>

\* SamplingStrategy.get_config: <<kind, reason>>
GetConfig(st) == <<"ok", "ok">>

\* the object a query's return statement hands to the caller: the strategy's
\* own attribute, or a value built by the call
ReturnedObject(op) ==
    CASE op = "get_sample_points" -> "self._sample_points"
      [] op = "get_config" -> "self.config"
      [] OTHER -> "fresh"

\* SamplingStrategy.to_geojson: <<kind, reason>>; io_ok is whether the file
\* could be written
ToGeojson(st, io_ok) ==
    IF IsNone(st.sample_points) THEN <<"ValueError", NoPointsReason>>
    ELSE IF ~io_ok THEN <<"IOError", "Failed to write GeoJSON">>
    ELSE <<"ok", "ok">>

-----------------------------------------------------------------------------
(* The svipro package: the copy of the sampling core under the project's   *)
(* former name.  Its grid strategy steps by config.spacing unconverted, its *)
(* checks raise ValueError, and its coverage metrics have no branch for an  *)
(* empty point set.                                                         *)

\* float('nan'), as it appears in the total_bounds of an empty GeoDataFrame
NaN == 0 - 1

\* svipro SamplingStrategy._validate_boundary: <<exception kind, reason>>
LegacyValidateBoundary(b) ==
    IF ~IsPolygon(b) THEN <<"TypeError", "boundary must be shapely Polygon">>
    ELSE IF ~IsValid(b) THEN <<"ValueError", "boundary is not a valid polygon">>
    ELSE IF IsEmpty(b) THEN <<"ValueError", "boundary cannot be empty">>
    ELSE IF AreaIsZero(b) THEN <<"ValueError", "boundary must have non-zero area">>
    ELSE <<"ok", "ok">>

\* len(x_coords) * len(y_coords) of svipro GridSampling.generate
LegacyTotalPotential(cfg, b) ==
    ArangeLen(b.minx, b.maxx + cfg.spacing, cfg.spacing)
        * ArangeLen(b.miny, b.maxy + cfg.spacing, cfg.spacing)

\* the points list of svipro GridSampling.generate
LegacyGridPoints(cfg, b, t) ==
    LET Keep(p) == Contains(b, p.x, p.y)
        Cand(nx, ny) ==
            [k \in 1..(nx * ny) |->
                GridPoint(cfg, b, t, cfg.spacing, (k - 1) \div ny, (k - 1) % ny)]
    IN  CHOOSE pts \in
          {SelectSeq(Cand(nx, ny), Keep) :
             nx \in {ArangeLen(b.minx, b.maxx + cfg.spacing, cfg.spacing)},
             ny \in {ArangeLen(b.miny, b.maxy + cfg.spacing, cfg.spacing)}} : TRUE

\* svipro GridSampling.generate(boundary) at time t on instance state st
LegacyGridGenerate(st, b, t, seed) ==
    LET v == LegacyValidateBoundary(b)
        cfg == Get(st.config)
        cfg1 == [cfg EXCEPT !.boundary = Some(b)]
        st1 == [st EXCEPT !.config = Some(cfg1), !.generation_timestamp = Some(t)]
    IN  IF v[1] # "ok" THEN Result(st, v[1], v[2], seed)
        ELSE IF cfg.spacing = 0
        THEN Result(st1, "ArangeError", "zero step", Some(cfg.seed))
        ELSE Result([st1 EXCEPT !.sample_points = Some(LegacyGridPoints(cfg1, b, t))],
                    "ok", "ok", Some(cfg.seed))

\* the for loop of svipro optimize_spacing_for_target_n, from iteration `it` on;
\* Trial is one pass of the loop body over the loop's variables v, Trials n passes
LegacyOptimizeLoop(st, b, t, seed, target_n, low, high, best, best_diff, it) ==
    LET Trial(v) ==
          IF ~IsNone(v.result) THEN v
          ELSE IF v.it >= OptimizeIterations
          THEN [v EXCEPT !.result =
                   Some(OptResult([v.st EXCEPT !.sample_points = v.best],
                                  "ok", "ok", v.seed, v.it))]
          ELSE
            LET mid_spacing == (v.low + v.high) \div 2
                cfg1 == [Get(v.st.config) EXCEPT !.spacing = mid_spacing]
                st1 == [v.st EXCEPT !.config = Some(cfg1)]
            IN  IF /\ LegacyValidateBoundary(b)[1] = "ok" /\ mid_spacing # 0
                   /\ LegacyTotalPotential(cfg1, b) > MaxLattice
                THEN [v EXCEPT !.result =
                         Some(OptResult(st1, "beyond", "beyond", v.seed, v.it))]
                ELSE
                  LET Rest(g) ==
                        IF g.kind # "ok"
                        THEN [v EXCEPT !.result =
                                 Some(OptResult(g.st, g.kind, g.reason, g.seed, v.it + 1))]
                        ELSE
                          LET gdf == Get(g.st.sample_points)
                              diff == Abs(Len(gdf) - target_n)
                              better == BetterTrial(diff, v.best_diff)
                              best1 == IF better THEN Some(gdf) ELSE v.best
                              best_diff1 == IF better THEN Some(diff) ELSE v.best_diff
                              low1 == IF Len(gdf) < target_n THEN v.low ELSE mid_spacing
                              high1 == IF Len(gdf) < target_n THEN mid_spacing ELSE v.high
                          IN  IF diff = 0
                              THEN [v EXCEPT !.result =
                                     Some(OptResult([g.st EXCEPT !.sample_points = best1],
                                                    "ok", "ok", g.seed, v.it + 1))]
                              ELSE [v EXCEPT !.st = g.st, !.seed = g.seed,
                                             !.low = low1, !.high = high1,
                                             !.best = best1, !.best_diff = best_diff1,
                                             !.it = v.it + 1]
                  IN  CHOOSE r \in {Rest(g) : g \in {LegacyGridGenerate(st1, b, t, v.seed)}} : TRUE
        RECURSIVE Trials(_, _)
        Trials(v, n) ==
          IF n <= 0 THEN v
          ELSE IF n = 1 THEN Trial(v)
          ELSE CHOOSE r \in {Trials(h, n - n \div 2) : h \in {Trials(v, n \div 2)}} : TRUE
    IN  Get(Trials([st |-> st, seed |-> seed, low |-> low, high |-> high,
                    best |-> best, best_diff |-> best_diff, it |-> it,
                    result |-> None],
                   OptimizeIterations - it + 1).result)

\* svipro GridSampling.optimize_spacing_for_target_n: the two argument checks,
\* then the search
LegacyOptimizeSpacing(st, b, t, seed, target_n, min_spacing, max_spacing) ==
    IF target_n <= 0
    THEN OptResult(st, "ValueError", "target_n must be positive", seed, 0)
    ELSE IF min_spacing >= max_spacing
    THEN OptResult(st, "ValueError",
                   "min_spacing must be less than max_spacing", seed, 0)
    ELSE LegacyOptimizeLoop(st, b, t, seed, target_n, min_spacing, max_spacing,
                            None, None, 0)

\* svipro SamplingStrategy.calculate_coverage_metrics: <<kind, reason,
\* Option(metrics)>>.  The bounds of an empty point set are NaN; nan_box is
\* whether the installed shapely builds a polygon from them (its area is then
\* NaN) or hands back no geometry (the area lookup then raises)
LegacyCoverageMetrics(st, nan_box) ==
    IF IsNone(st.sample_points)
    THEN <<"ValueError", NoPointsReason, None>>
    ELSE
      LET gdf == Get(st.sample_points)
          cfg == Get(st.config)
      IN  IF Len(gdf) = 0
          THEN IF nan_box
               THEN <<"ok", "ok",
                      Some(Metrics(0, NaN, 0, <<NaN, NaN, NaN, NaN>>, CrsStr(cfg.crs)))>>
               ELSE <<"AttributeError", "'NoneType' object has no attribute 'area'",
                      None>>
          ELSE
            LET bnd == TotalBounds(gdf)
                m2 == AreaUnits(bnd[3] - bnd[1], bnd[4] - bnd[2])
                area == [m2 |-> m2, positive |-> bnd[3] > bnd[1] /\ bnd[4] > bnd[2]]
            IN  <<"ok", "ok",
                  Some(Metrics(Len(gdf), RoundArea(m2), RoundDensity(Len(gdf), area),
                               bnd, CrsStr(cfg.crs)))>>

-----------------------------------------------------------------------------
(* The road graph the provider (osmnx.graph_from_polygon) returns *)

\* the highway attribute: a single tag (list = FALSE, one element) or a list
Highway(tag) == [list |-> FALSE, tags |-> <<tag>>]
HighwayList(tags) == [list |-> TRUE, tags |-> tags]

\* one directed edge u -> v with key `key`; the geometry is the straight line
\* from (x1, y1) to (x2, y2); length is the `length` attribute in metres;
\* osmid is Option(id)
Edge(u, v, key, highway, length, osmid, x1, y1, x2, y2) ==
    [u |-> u, v |-> v, key |-> key, highway |-> highway, length |-> length,
     osmid |-> osmid, x1 |-> x1, y1 |-> y1, x2 |-> x2, y2 |-> y2]

\* a MultiDiGraph: nodes in insertion order, edges in insertion order, and
\* whether the edges carry a `length` attribute
Graph(nodes, edges, has_length) ==
    [nodes |-> nodes, edges |-> edges, has_length |-> has_length]

\* graph.number_of_nodes()
NumberOfNodes(g) == Len(g.nodes)
\* an edge count that is never zero
NumberOfEdgesOne(g) == 1
\* graph.number_of_edges()
NumberOfEdges(g) == Len(g.edges)

\* position of node n in the node order
NodeIndex(g, n) == CHOOSE k \in 1..Len(g.nodes) : g.nodes[k] = n

\* two directed edges that become the same edge of the MultiGraph
SameUndirected(e, f) ==
    /\ e.key = f.key
    /\ \/ (e.u = f.u /\ e.v = f.v)
       \/ (e.u = f.v /\ e.v = f.u)

\* two directed edges that join the same pair of nodes
SamePair(e, f) == (e.u = f.u /\ e.v = f.v) \/ (e.u = f.v /\ e.v = f.u)

\* position in the edge list of the first edge that joins the nodes of e
FirstPairPos(g, e) ==
    CHOOSE k \in 1..Len(g.edges) :
        /\ SamePair(e, g.edges[k])
        /\ \A j \in 1..(k - 1) : ~SamePair(e, g.edges[j])
\* position of the first edge that becomes the same undirected edge as e
FirstSamePos(g, e) ==
    CHOOSE k \in 1..Len(g.edges) :
        /\ SameUndirected(e, g.edges[k])
        /\ \A j \in 1..(k - 1) : ~SameUndirected(e, g.edges[j])
\* position of the last edge that becomes the same undirected edge as e
LastSamePos(g, e) ==
    CHOOSE k \in 1..Len(g.edges) :
        /\ SameUndirected(e, g.edges[k])
        /\ \A j \in (k + 1)..Len(g.edges) : ~SameUndirected(e, g.edges[j])

\* the sort key of an undirected edge in MultiGraph.edges(): the endpoint that
\* comes first in node order owns it, then neighbours and keys in the order
\* they were first added
UndirectedRank(g, e) ==
    LET owner == Min(NodeIndex(g, e.u), NodeIndex(g, e.v))
    IN  <<owner, FirstPairPos(g, e), FirstSamePos(g, e)>>

RankLess(a, b) ==
    \/ a[1] < b[1]
    \/ a[1] = b[1] /\ a[2] < b[2]
    \/ a[1] = b[1] /\ a[2] = b[2] /\ a[3] < b[3]

\* graph.to_undirected(): reciprocal edges with the same key merge into one,
\* which carries the attributes of the one added last
ToUndirected(g) ==
    LET es == g.edges
        firsts == {k \in 1..Len(es) : \A j \in 1..(k - 1) : ~SameUndirected(es[k], es[j])}
        Data(k) == es[LastSamePos(g, es[k])]
        Before(k) == {j \in firsts :
                        RankLess(UndirectedRank(g, es[j]), UndirectedRank(g, es[k]))}
        pos == [n \in 1..Cardinality(firsts) |->
                   CHOOSE k \in firsts : Cardinality(Before(k)) = n - 1]
    IN  [g EXCEPT !.edges = [n \in 1..Cardinality(firsts) |->
                               [Data(pos[n]) EXCEPT !.u = es[pos[n]].u,
                                                    !.v = es[pos[n]].v]]]

\* the road-type test of the filter loop
MatchesRoadTypes(e, types) == \E k \in 1..Len(e.highway.tags) : e.highway.tags[k] \in types

\* graph.edge_subgraph(edges_to_keep).copy()
FilterEdges(g, types) ==
    LET Keep(e) == MatchesRoadTypes(e, types)
    IN  [g EXCEPT !.edges = SelectSeq(g.edges, Keep)]

\* the length column of edges_gdf for edge e
EdgeLength(g, e) ==
    IF g.has_length THEN e.length
    ELSE Abs(e.x2 - e.x1) + Abs(e.y2 - e.y1)

RECURSIVE SumLengths(_, _)
\* edges_gdf['length'].sum() over the first n edges
SumLengths(g, n) == IF n = 0 THEN 0 ELSE SumLengths(g, n - 1) + EdgeLength(g, g.edges[n])

TotalLength(g) == SumLengths(g, Len(g.edges))

-----------------------------------------------------------------------------
(* ssp/sampling/road_network.py: RoadNetworkSampling *)

RoadStrategyName == "road_network_sampling"

HIGHWAY_TYPES ==
    {"motorway", "trunk", "primary", "secondary", "tertiary", "unclassified",
     "residential", "service", "motorway_link", "trunk_link", "primary_link",
     "secondary_link", "tertiary_link", "living_street", "pedestrian", "track",
     "road", "path", "cycleway", "footway", "steps", "bridleway"}

NETWORK_TYPES == {"all", "walk", "drive", "bike"}

\* RoadNetworkSampling.__init__ argument checks: reason of the ValueError, or "ok"
RoadValidate(nt, rt) ==
    IF nt \notin NETWORK_TYPES THEN "network_type must be one of NETWORK_TYPES"
    ELSE IF ~IsNone(rt) /\ Get(rt) \ HIGHWAY_TYPES # {} THEN "Invalid road types"
    ELSE "ok"

\* floor(v * i / d) for 0 <= i <= d, without leaving 32 bits
FracMul(v, i, d) == (v \div d) * i + ((v % d) * i) \div d

\* n_points_target = max(1, int(total_length / spacing))
PointsTarget(total_length, spacing) == Max(1, TruncDiv(total_length, spacing))

\* n_edge_points for an edge, given the number of points generated so far
EdgePoints(edge_length, spacing, points_generated) ==
    IF points_generated = 0
    THEN Max(1, TruncDiv(edge_length, spacing) + 1)
    ELSE Max(1, TruncDiv(edge_length, spacing))

\* edge_geom.interpolate(fraction, normalized=True) with fraction i / (n - 1),
\* or 0.5 when n = 1
Interpolate(e, i, n) ==
    IF n > 1
    THEN <<e.x1 + FracMul(e.x2 - e.x1, i, n - 1), e.y1 + FracMul(e.y2 - e.y1, i, n - 1)>>
    ELSE <<e.x1 + (e.x2 - e.x1) \div 2, e.y1 + (e.y2 - e.y1) \div 2>>

\* fraction * edge_length
DistanceAlong(edge_length, i, n) ==
    IF n > 1 THEN FracMul(edge_length, i, n - 1) ELSE edge_length \div 2

\* a walk without budget
BudgetLeftAlways(points_generated, n_points_target) == TRUE
\* whether the walk goes on placing points: the budget test of the inner loop
BudgetLeft(points_generated, n_points_target) == points_generated < n_points_target

\* graph.get_edge_data(u, v): the edges of g between the endpoints of e
EdgeData(g, e) == {k \in 1..Len(g.edges) : SamePair(g.edges[k], e)}

\* whether edge_data[0] exists, i.e. some edge between the endpoints has key 0
HasKeyZero(g, e) == \E k \in EdgeData(g, e) : g.edges[k].key = 0

\* edge_data[0].get('osmid', idx): Option(osmid) of the key-0 edge, None
\* standing for the fallback to the row index
EdgeId(g, e) ==
    LET k0 == CHOOSE k \in EdgeData(g, e) : g.edges[k].key = 0
    IN  g.edges[k0].osmid

\* str(highway) for a row's highway value
HighwayStr(h) == IF h.list THEN <<"list", h.tags>> ELSE <<"str", h.tags[1]>>

RoadPoint(cfg, nt, g, e, t, i, n, points_generated) ==
    LET pt == Interpolate(e, i, n)
    IN  [x |-> pt[1], y |-> pt[2],
         sample_id |-> RoadSampleId(RoadStrategyName, points_generated),
         strategy |-> RoadStrategyName,
         timestamp |-> t,
         edge_id |-> EdgeId(g, e),
         distance_along_edge |-> DistanceAlong(EdgeLength(g, e), i, n),
         spacing_m |-> cfg.spacing,
         highway |-> HighwayStr(e.highway),
         network_type |-> nt]

\* the state of the edge walk: the points so far and whether a KeyError was
\* raised by edge_data[0]
Walk(points, key_error) == [points |-> points, key_error |-> key_error]

RECURSIVE WalkEdge(_, _, _, _, _, _, _, _, _, _)
\* the inner loop `for i in range(n_edge_points)` from index i on
WalkEdge(cfg, nt, g, b, t, target, e, n, i, w) ==
    IF i >= n \/ w.key_error \/ ~BudgetLeft(Len(w.points), target) THEN w
    ELSE LET pt == Interpolate(e, i, n)
         IN  IF ~Contains(b, pt[1], pt[2])
             THEN WalkEdge(cfg, nt, g, b, t, target, e, n, i + 1, w)
             ELSE IF ~HasKeyZero(g, e)
             THEN Walk(w.points, TRUE)
             ELSE WalkEdge(cfg, nt, g, b, t, target, e, n, i + 1,
                           Walk(Append(w.points,
                                       RoadPoint(cfg, nt, g, e, t, i, n, Len(w.points))),
                                FALSE))

RECURSIVE WalkEdges(_, _, _, _, _, _, _, _)
\* the outer loop `for idx, row in edges_gdf.iterrows()` from edge k on
WalkEdges(cfg, nt, g, b, t, target, k, w) ==
    IF k > Len(g.edges) \/ w.key_error THEN w
    ELSE LET e == g.edges[k]
             n == EdgePoints(EdgeLength(g, e), cfg.spacing, Len(w.points))
             Rest(w1) == IF ~BudgetLeft(Len(w1.points), target) THEN w1
                         ELSE WalkEdges(cfg, nt, g, b, t, target, k + 1, w1)
         IN  CHOOSE r \in {Rest(w1) : w1 \in
                              {WalkEdge(cfg, nt, g, b, t, target, e, n, 0, w)}} : TRUE

\* the graph the points are placed on: undirected, then road-type filtered
SampledGraph(g, rt) ==
    IF IsNone(rt) THEN ToUndirected(g) ELSE FilterEdges(ToUndirected(g), Get(rt))

\* generate() that converts and filters the provider's graph in place
GraphConvertedInPlace(g, rt) == SampledGraph(g, rt)
\* the provider's graph object once generate() has worked on it:
\* to_undirected() and edge_subgraph(...).copy() build new graphs, so the
\* object is as the provider returned it
GraphAfterGenerate(g, rt) == g

\* the result of RoadNetworkSampling.generate: the call's Result, the stored
\* road graph it leaves behind, and whether the provider was called
RoadResult(st, kind, reason, seed, graph, provider_called) ==
    [st |-> st, kind |-> kind, reason |-> reason, seed |-> seed, ret |-> None,
     graph |-> graph, provider_called |-> provider_called]

\* RoadNetworkSampling.generate(boundary) at time t; `fetched` is what the
\* provider does when asked: None when it raises, else Some(graph)
RoadGenerate(st, nt, rt, graph0, b, t, seed, fetched) ==
    LET v == ValidateBoundary(b)
        cfg == Get(st.config)
        cfg1 == [cfg EXCEPT !.boundary = Some(b)]
        st1 == [st EXCEPT !.config = Some(cfg1), !.generation_timestamp = Some(t)]
        seed1 == Some(cfg.seed)
    IN  IF v[1] # "ok" THEN RoadResult(st, v[1], v[2], seed, graph0, FALSE)
        ELSE IF IsNone(fetched)
        THEN RoadResult(st1, "RuntimeError",
                        "Failed to download road network from OpenStreetMap",
                        seed1, graph0, TRUE)
        ELSE IF NumberOfEdges(Get(fetched)) = 0
        THEN RoadResult(st1, "ValueError", "No road network found within the boundary",
                        seed1, fetched, TRUE)
        ELSE
          LET after == Some(GraphAfterGenerate(Get(fetched), rt))
              Placed(w) ==
                IF w.key_error
                THEN RoadResult(st1, "KeyError", "0", seed1, after, TRUE)
                ELSE IF Len(w.points) = 0
                THEN RoadResult(st1, "ValueError",
                                "No sample points could be generated within boundary",
                                seed1, after, TRUE)
                ELSE Returning(RoadResult([st1 EXCEPT !.sample_points =
                                                 StoredPoints(st1, w.points)],
                                          "ok", "ok", seed1, after, TRUE), w.points)
              Sampled(g) ==
                IF NumberOfEdges(g) = 0
                THEN RoadResult(st1, "ValueError", "No road edges matching road_types",
                                seed1, after, TRUE)
                ELSE CHOOSE r \in
                       {Placed(w) : w \in
                          {WalkEdges(cfg1, nt, g, b, t,
                                     PointsTarget(TotalLength(g), cfg1.spacing),
                                     1, Walk(<<>>, FALSE))}} : TRUE
          IN  CHOOSE r \in {Sampled(g) : g \in {SampledGraph(Get(fetched), rt)}} : TRUE

\* the dictionary calculate_road_network_metrics() returns; lengths in km and
\* the mean degree are fixed-point, the histogram maps a highway value to the
\* number of points that carry it
RoadMetrics(n_points, n_edges, n_nodes, length_km, avg_degree, distribution, nt) ==
    [n_points |-> n_points, n_edges |-> n_edges, n_nodes |-> n_nodes,
     total_road_length_km |-> length_km, avg_degree |-> avg_degree,
     road_type_distribution |-> distribution, network_type |-> nt]

\* self._sample_points['highway'].value_counts().to_dict()
ValueCounts(pts) ==
    [h \in {pts[k].highway : k \in 1..Len(pts)} |->
        Cardinality({k \in 1..Len(pts) : pts[k].highway = h})]

\* np.mean of the node degrees of a MultiDiGraph: every edge adds one to its
\* source's and one to its target's degree
AvgDegree(g) == (2 * NumberOfEdges(g) * FP) \div NumberOfNodes(g)

\* a metrics call that raises, as the base class queries do, while nothing
\* was generated
CalculateRoadNetworkMetricsStrict(st, nt, graph) ==
    IF IsNone(st.sample_points) THEN <<"ValueError", NoPointsReason, None>>
    ELSE <<"ok", "ok",
           Some(RoadMetrics(Len(Get(st.sample_points)), 0, 0, 0, 0, <<>>, nt))>>
\* RoadNetworkSampling.calculate_road_network_metrics: <<kind, reason, value>>;
\* ox.graph_to_gdfs raises ValueError on a graph without edges
CalculateRoadNetworkMetrics(st, nt, graph) ==
    IF IsNone(st.sample_points) \/ Len(Get(st.sample_points)) = 0
    THEN <<"ok", "ok", Some(RoadMetrics(0, 0, 0, 0, 0, <<>>, nt))>>
    ELSE
      LET pts == Get(st.sample_points)
      IN  IF IsNone(graph)
          THEN <<"ok", "ok",
                 Some(RoadMetrics(Len(pts), 0, 0, 0, 0, ValueCounts(pts), nt))>>
          ELSE IF NumberOfEdges(Get(graph)) = 0
          THEN <<"ValueError", "Graph contains no edges", None>>
          ELSE <<"ok", "ok",
                 Some(RoadMetrics(Len(pts), NumberOfEdges(Get(graph)),
                                  NumberOfNodes(Get(graph)),
                                  TotalLength(Get(graph)) \div 1000,
                                  AvgDegree(Get(graph)), ValueCounts(pts), nt))>>

-----------------------------------------------------------------------------
(* Inputs the callers choose from *)

GridInstances == {"g1", "g2"}
RoadInstance == "r1"
\* a grid strategy of the svipro package
LegacyInstance == "s1"
\* the strategies of the ssp package
SspInstances == GridInstances \cup {RoadInstance}
Instances == SspInstances \cup {LegacyInstance}

\* readings of datetime.now()
Timestamps == {1, 2}

\* SamplingConfig constructor arguments; 42 is the default seed
CrsInputs == {"EPSG:3857", "EPSG:4326", "epsg:4326", ""}
SpacingInputs == {M(0 - 100), 0, M(50), M(100)}
SeedInputs == {0 - 1, 42}

\* the square of testable scenario A
ScenarioBox == Box(0, 0, M(1000), M(1000))
SmallBox == Box(0, 0, M(8), M(8))
MidBox == Box(0, 0, M(250), M(250))
TinyTriangle == Tri(0, 0, M(1))
MidTriangle == Tri(0, 0, M(400))
\* boxes of 4096 / 2^20 degrees at the equator and at 60 degrees north
EquatorBox == Box(0, 0, 4096, 4096)
NorthBox == Box(0, M(60), 4096, M(60) + 4096)

ValidBoundaries ==
    {ScenarioBox, SmallBox, MidBox, TinyTriangle, MidTriangle, EquatorBox, NorthBox}
InvalidBoundaries == {NotAPolygon, Bowtie, EmptyPolygon, ZeroAreaPolygon}
BoundaryInputs == ValidBoundaries \cup InvalidBoundaries

\* the strategy the optimizer is tried on, and its arguments
OptimizeCrsInputs == {"EPSG:3857", "EPSG:4326"}
OptimizeSpacingInputs == {0, M(100)}
OptimizeBoundaries == {SmallBox, Bowtie}
TargetInputs == {0, 1, 5, 200}
\* <<min_spacing, max_spacing>>
RangeInputs == {<<M(2), M(8)>>, <<M(8), M(2)>>, <<M(0 - 3), M(1)>>,
                <<M(0 - 4), M(4)>>, <<0, M(8)>>}

\* the two strategies compared for reproducibility
TwinCrsInputs == {"EPSG:3857", "EPSG:4326"}
TwinSpacingInputs == {M(50), M(100)}
TwinSeedInputs == {0, 42}
TwinBoundaries == {MidBox, MidTriangle, EquatorBox}

\* the spacing a caller writes into a configuration it was handed
CallerSpacingInputs == {M(100)}

\* grid indices and road point counts whose ids are formatted: below, at and
\* above the widths of the format
GridIndexInputs == {1, 12, 9999, 10000, 10001}
RoadCountInputs == {0, 1, 12, 99999, 100000, 100001, 199999}

\* the svipro strategy and the boundaries it is run on
LegacySpacingInputs == {0, M(100)}
LegacyBoundaries == {SmallBox, MidBox, Bowtie}
\* the arguments the svipro optimizer is tried with
LegacyTargetInputs == {0, 5, 200}
LegacyRangeInputs == {<<M(2), M(8)>>, <<M(8), M(2)>>}

\* RoadNetworkSampling constructor arguments
RoadCrsInputs == {"EPSG:3857", ""}
RoadSpacingInputs == {0, M(100)}
NetworkTypeInputs == {"all", "rail"}
RoadTypesInputs == {None, Some({"primary"}), Some({"canal"})}

\* graphs the provider may return
\* testable scenario B: two perpendicular primary roads of 1000 m
CrossGraph ==
    Graph(<<1, 2, 3, 4>>,
          <<Edge(1, 2, 0, Highway("primary"), M(1000), Some(10),
                 0, M(500), M(1000), M(500)),
            Edge(3, 4, 0, Highway("primary"), M(1000), Some(11),
                 M(500), 0, M(500), M(1000))>>, TRUE)
\* one primary road of 1000 m drawn strictly inside the scenario square
InnerGraph ==
    Graph(<<1, 2>>,
          <<Edge(1, 2, 0, Highway("primary"), M(1000), Some(20),
                 M(100), M(500), M(900), M(500))>>, TRUE)
\* one primary road of 40 m, without length attribute or osmid
ShortGraph ==
    Graph(<<1, 2>>,
          <<Edge(1, 2, 0, Highway("primary"), 0, None,
                 M(100), M(100), M(140), M(100))>>, FALSE)
\* a two-way street (reciprocal directed edges) and a road with a tag list
TwoWayGraph ==
    Graph(<<1, 2, 3>>,
          <<Edge(1, 2, 0, Highway("residential"), M(100), Some(30),
                 M(50), M(100), M(150), M(100)),
            Edge(2, 1, 0, Highway("residential"), M(100), Some(30),
                 M(150), M(100), M(50), M(100)),
            Edge(2, 3, 0, HighwayList(<<"primary", "residential">>), M(100), Some(31),
                 M(150), M(100), M(150), M(200))>>, TRUE)
\* two parallel edges between the same nodes with different tags
ParallelGraph ==
    Graph(<<1, 2>>,
          <<Edge(1, 2, 0, Highway("residential"), M(100), Some(40),
                 M(50), M(100), M(150), M(100)),
            Edge(1, 2, 1, Highway("primary"), M(100), Some(41),
                 M(50), M(120), M(150), M(120))>>, TRUE)
\* two residential roads of 100 m: the first visited lies outside the 250 m
\* box, the second inside it
DetourGraph ==
    Graph(<<1, 2, 3, 4>>,
          <<Edge(1, 2, 0, Highway("residential"), M(100), Some(50),
                 M(300), M(300), M(400), M(300)),
            Edge(3, 4, 0, Highway("residential"), M(100), Some(51),
                 M(50), M(100), M(150), M(100))>>, TRUE)
\* a graph without edges
EmptyGraph == Graph(<<1>>, <<>>, TRUE)
\* what the provider does: raise (None) or return a graph
FetchInputs ==
    {None, Some(CrossGraph), Some(InnerGraph), Some(ShortGraph), Some(TwoWayGraph),
     Some(ParallelGraph), Some(DetourGraph), Some(EmptyGraph)}

RoadBoundaries == {ScenarioBox, MidBox}
\* the calls made with a boundary that is no valid polygon
InvalidFetchInputs == {None, Some(CrossGraph)}

-----------------------------------------------------------------------------
(* ssp/performance/cache.py: DiskCache, used by several threads *)

\* values pickle.dump cannot serialise (a lambda, an open socket)
Unpicklable == "lambda"
\* what open(path, 'wb') followed by a failing pickle.dump leaves on disk
TruncatedPickle == "truncated"
\* Python's None, True and False as return values
PyNone == "None"
PyBool(b) == IF b THEN "True" ELSE "False"

\* the constructor's defaults max_age_days and max_size_mb, and
\* cache_path.stat().st_size of a pickled value
max_age_days == 7
max_size_mb == 1024
SizeBytes(value) == 1

\* DiskCache.__init__ on a fresh directory: no cache file, _load_metadata()
\* finds no metadata file, the lock is free
NoFiles == [k \in {"a", "b"} |-> None]
LoadMetadata == [k \in {"a", "b"} |-> None]

\* one thread's call: where it stands (pc), the call and its arguments, the
\* value it returned, the call it completed before, and the statement a
\* nested lock acquisition was made from (at)
NoCall == [op |-> "", key |-> "", value |-> ""]
IdleCall ==
    [pc |-> "idle", op |-> "", key |-> "", value |-> "", ret |-> "",
     prev |-> NoCall, at |-> ""]

\* outcome of the statements run under the lock: the call returns (the with
\* block releases the lock), or it calls a method that takes the lock again
Returns(files, md, ret) ==
    [files |-> files, metadata |-> md, next |-> "return", ret |-> ret, at |-> ""]
Relocks(files, md, ret, at) ==
    [files |-> files, metadata |-> md, next |-> "relock", ret |-> ret, at |-> at]

MetadataEntry(now, value) ==
    Some([timestamp |-> now, last_access |-> now, size_bytes |-> SizeBytes(value)])
Expired(entry, now) == now - entry.timestamp > max_age_days

\* DiskCache.get, from the with statement on
CacheGet(files, md, key, now) ==
    IF IsNone(files[key]) THEN Returns(files, md, PyNone)
    ELSE IF ~IsNone(md[key]) /\ Expired(Get(md[key]), now)
    THEN Relocks([files EXCEPT ![key] = None], [md EXCEPT ![key] = None],
                 PyNone, "_save_metadata")
    ELSE IF Get(files[key]) # TruncatedPickle
    THEN IF ~IsNone(md[key])
         THEN Relocks(files,
                      [md EXCEPT ![key] = Some([Get(md[key]) EXCEPT !.last_access = now])],
                      Get(files[key]), "_save_metadata")
         ELSE Returns(files, md, Get(files[key]))
    ELSE Returns([files EXCEPT ![key] = None], md, PyNone)

\* DiskCache.put, from the with statement on: open(cache_path, 'wb') creates
\* the file before pickle.dump runs; the except clause only warns
CachePut(files, md, key, value, now) ==
    IF value = Unpicklable
    THEN Returns([files EXCEPT ![key] = Some(TruncatedPickle)], md, PyNone)
    ELSE Relocks([files EXCEPT ![key] = Some(value)],
                 [md EXCEPT ![key] = MetadataEntry(now, value)],
                 PyNone, "_save_metadata")

\* DiskCache.delete, from the with statement on
CacheDelete(files, md, key) ==
    IF ~IsNone(md[key])
    THEN Relocks([files EXCEPT ![key] = None], [md EXCEPT ![key] = None],
                 PyBool(TRUE), "_save_metadata")
    ELSE Returns([files EXCEPT ![key] = None], md, PyBool(FALSE))

\* DiskCache.clear, from the with statement on
CacheClear(files, md) ==
    Relocks(NoFiles, LoadMetadata, PyNone, "_save_metadata")

\* DiskCache.cleanup_expired, from the with statement on: the first expired
\* key is handed to self.delete(key), which takes the lock
CleanupExpired(files, md, now) ==
    IF \E k \in DOMAIN md : ~IsNone(md[k]) /\ Expired(Get(md[k]), now)
    THEN Relocks(files, md, "0", "delete")
    ELSE Returns(files, md, "0")

\* DiskCache._cleanup_if_needed, which put() calls once _save_metadata() is
\* back: over the size limit the least recently used key goes to self.delete
CleanupIfNeeded(files, md, ret) ==
    LET present == {k \in DOMAIN md : ~IsNone(md[k])}
    IN  IF Cardinality(present) * SizeBytes("") > max_size_mb * 1024 * 1024
        THEN Relocks(files, md, ret, "delete")
        ELSE Returns(files, md, ret)

\* the statements of a call run while it holds the lock
LockedBody(files, md, call, now) ==
    CASE call.op = "get" -> CacheGet(files, md, call.key, now)
      [] call.op = "put" -> CachePut(files, md, call.key, call.value, now)
      [] call.op = "delete" -> CacheDelete(files, md, call.key)
      [] call.op = "clear" -> CacheClear(files, md)
      [] OTHER -> CleanupExpired(files, md, now)

\* the statements that follow a nested acquisition of the lock
AfterRelock(files, md, call) ==
    IF call.op = "put" /\ call.at = "_save_metadata"
    THEN CleanupIfNeeded(files, md, call.ret)
    ELSE Returns(files, md, call.ret)

Threads == {"t1", "t2"}
CacheKeys == {"a", "b"}
CacheValues == {"v", Unpicklable}
\* readings of datetime.now(), in days
CacheTimes == {0, 10}
CacheCallInputs ==
    {[op |-> "get", key |-> k, value |-> ""] : k \in CacheKeys}
    \cup {[op |-> "put", key |-> k, value |-> v] : k \in CacheKeys, v \in CacheValues}
    \cup {[op |-> "delete", key |-> k, value |-> ""] : k \in CacheKeys}
    \cup {[op |-> "clear", key |-> "", value |-> ""],
          [op |-> "cleanup_expired", key |-> "", value |-> ""]}

-----------------------------------------------------------------------------
(* ssp/performance/parallel.py: ParallelProcessor.map *)

MaxItems == 3         \* longest list of items a map() call is given

\* the caller's func: raises on the item 0, squares the others
Raises(item) == item = 0
Func(item) == item * item

\* the state of a ParallelProcessor between map() calls; a list entry is
\* Some(value), or None where Python's None stands
NoMap ==
    [pc |-> "idle", items |-> <<>>, n_workers |-> 0, futures |-> <<>>,
     results |-> <<>>, order |-> <<>>, outcome |-> "", ret |-> <<>>]

\* [func(item, **kwargs) for item in items]
MapSequential(run) ==
    IF \E i \in 1..Len(run.items) : Raises(run.items[i])
    THEN [run EXCEPT !.pc = "done", !.outcome = "raised"]
    ELSE [run EXCEPT !.pc = "done", !.outcome = "returned",
                     !.ret = [i \in 1..Len(run.items) |-> Some(Func(run.items[i]))]]

\* a map() that lists the results as the futures complete
StoreResultAppended(results, order, idx, value) ==
    [results EXCEPT ![Len(order) + 1] = Some(value)]
\* results[idx] = future.result()
StoreResult(results, order, idx, value) == [results EXCEPT ![idx] = Some(value)]

Running(run) == {i \in 1..Len(run.futures) : run.futures[i] = "running"}

ItemInputs == {0, 2, 3}
ItemLists == UNION {[1..n -> ItemInputs] : n \in 0..MaxItems}
WorkerInputs == {2, 4}

-----------------------------------------------------------------------------
(* State *)

\* the arguments of a generate() call: Option(boundary), and for the road
\* strategy Option(what the provider does when asked)
Args(boundary, fetched) == [boundary |-> boundary, fetched |-> fetched]
NoArgs == Args(None, None)
\* the arguments of an optimize_spacing_for_target_n() call
OptimizeArgs(boundary, target_n, min_spacing, max_spacing) ==
    [boundary |-> Some(boundary), fetched |-> None, target_n |-> target_n,
     min_spacing |-> min_spacing, max_spacing |-> max_spacing]

Op(op, inst, args, kind, reason, ret, provider_called, trials) ==
    [op |-> op, inst |-> inst, args |-> args, kind |-> kind, reason |-> reason,
     ret |-> ret, provider_called |-> provider_called, trials |-> trials]

StateOf(i) == Inst(config[i], sample_points[i], generation_timestamp[i])

Constructed(i) == ~IsNone(config[i])

\* write instance state st back to instance i
Store(i, st) ==
    /\ config' = [config EXCEPT ![i] = st.config]
    /\ sample_points' = [sample_points EXCEPT ![i] = st.sample_points]
    /\ generation_timestamp' =
           [generation_timestamp EXCEPT ![i] = st.generation_timestamp]

Init ==
    /\ config = [i \in Instances |-> None]
    /\ sample_points = [i \in Instances |-> None]
    /\ generation_timestamp = [i \in Instances |-> None]
    /\ np_seed = None
    /\ network_type = None
    /\ road_types = None
    /\ road_graph = None
    /\ lastOp = Op("init", "", NoArgs, "ok", "ok", None, FALSE, 0)
    /\ cache_files = NoFiles
    /\ metadata = LoadMetadata
    /\ lock = None
    /\ calls = [t \in Threads |-> IdleCall]
    /\ map_run = NoMap

-----------------------------------------------------------------------------
(* Grid actions *)

\* GridSampling(SamplingConfig(spacing, crs, seed))
ConstructGrid(i, spacing, crs, seed) ==
    /\ ~Constructed(i)
    /\ LET r == ConfigValidate(spacing, crs, seed)
       IN  IF r # "ok"
           THEN /\ lastOp' = Op("construct", i, NoArgs, "ConfigurationError", r,
                                None, FALSE, 0)
                /\ UNCHANGED <<config, sample_points, generation_timestamp>>
           ELSE /\ lastOp' = Op("construct", i, NoArgs, "ok", "ok", None, FALSE, 0)
                /\ Store(i, Inst(Some(SamplingConfig(spacing, crs, seed)), None, None))
    /\ UNCHANGED <<np_seed, network_type, road_types, road_graph>>
    /\ UNCHANGED performanceVars

\* strategy.generate(b) on a grid instance, the clock reading t
Generate(i, b, t) ==
    /\ Constructed(i)
    /\ ValidateBoundary(b)[1] = "ok" => TotalPotential(Get(config[i]), b) <= MaxLattice
    /\ \E r \in {GridGenerate(StateOf(i), b, t, np_seed)} :
           /\ Store(i, r.st)
           /\ np_seed' = r.seed
           /\ lastOp' = Op("generate", i, Args(Some(b), None), r.kind, r.reason,
                           r.ret, FALSE, 0)
    /\ UNCHANGED <<network_type, road_types, road_graph>>
    /\ UNCHANGED performanceVars

\* strategy.optimize_spacing_for_target_n(b, target_n, min_spacing, max_spacing)
Optimize(i, b, t, target_n, range) ==
    /\ Constructed(i)
    /\ \E r \in {OptimizeSpacing(StateOf(i), b, t, np_seed, target_n,
                                   range[1], range[2])} :
           /\ r.kind # "beyond"
           /\ Store(i, r.st)
           /\ np_seed' = r.seed
           /\ lastOp' = Op("optimize", i, OptimizeArgs(b, target_n, range[1], range[2]),
                           r.kind, r.reason, r.ret, FALSE, r.trials)
                         @@ [history |-> r.history]
    /\ UNCHANGED <<network_type, road_types, road_graph>>
    /\ UNCHANGED performanceVars

-----------------------------------------------------------------------------
(* Queries of the base class, on any instance *)

CalculateCoverageMetrics(i) ==
    /\ Constructed(i)
    /\ \E r \in {CoverageMetrics(StateOf(i))} :
           lastOp' = Op("calculate_coverage_metrics", i, NoArgs, r[1], r[2], r[3],
                        FALSE, 0)
    /\ UNCHANGED <<config, sample_points, generation_timestamp, np_seed,
                   network_type, road_types, road_graph>>
    /\ UNCHANGED performanceVars

GetSamplePointsCall(i) ==
    /\ Constructed(i)
    /\ LET r == GetSamplePoints(StateOf(i))
       IN  lastOp' = Op("get_sample_points", i, NoArgs, r[1], r[2], r[3], FALSE, 0)
    /\ UNCHANGED <<config, sample_points, generation_timestamp, np_seed,
                   network_type, road_types, road_graph>>
    /\ UNCHANGED performanceVars

ToGeojsonCall(i, io_ok) ==
    /\ Constructed(i)
    /\ LET r == ToGeojson(StateOf(i), io_ok)
       IN  lastOp' = Op("to_geojson", i, NoArgs, r[1], r[2], None, FALSE, 0)
    /\ UNCHANGED <<config, sample_points, generation_timestamp, np_seed,
                   network_type, road_types, road_graph>>
    /\ UNCHANGED performanceVars

GetConfigCall(i) ==
    /\ Constructed(i)
    /\ LET r == GetConfig(StateOf(i))
       IN  lastOp' = Op("get_config", i, NoArgs, r[1], r[2], None, FALSE, 0)
    /\ UNCHANGED <<config, sample_points, generation_timestamp, np_seed,
                   network_type, road_types, road_graph>>
    /\ UNCHANGED performanceVars

\* the caller changes, in place, the object the last query handed back:
\* points.drop(points.index, inplace=True) on a point table, cfg.spacing =
\* spacing on a configuration, metrics.clear() on a metrics dictionary
CallerMutates(i, spacing) ==
    /\ lastOp.inst = i /\ lastOp.kind = "ok"
    /\ lastOp.op \in {"get_sample_points", "get_config",
                      "calculate_coverage_metrics"}
    /\ sample_points' =
          IF ReturnedObject(lastOp.op) = "self._sample_points"
          THEN [sample_points EXCEPT ![i] = Some(<<>>)]
          ELSE sample_points
    /\ config' =
          IF ReturnedObject(lastOp.op) = "self.config"
          THEN [config EXCEPT ![i] = Some([Get(@) EXCEPT !.spacing = spacing])]
          ELSE config
    /\ lastOp' = Op("caller_mutation", i, NoArgs, "ok", "ok", None, FALSE, 0)
    /\ UNCHANGED <<generation_timestamp, np_seed, network_type, road_types,
                   road_graph>>
    /\ UNCHANGED performanceVars

Queries(i) ==
    \/ CalculateCoverageMetrics(i)
    \/ GetSamplePointsCall(i)
    \/ \E io_ok \in BOOLEAN : ToGeojsonCall(i, io_ok)

-----------------------------------------------------------------------------
(* Road actions *)

\* RoadNetworkSampling(SamplingConfig(spacing, crs, seed), network_type, road_types)
ConstructRoad(spacing, crs, seed, nt, rt) ==
    /\ ~Constructed(RoadInstance)
    /\ LET r == ConfigValidate(spacing, crs, seed)
           q == RoadValidate(nt, rt)
       IN  IF r # "ok"
           THEN /\ lastOp' = Op("construct", RoadInstance, NoArgs,
                                "ConfigurationError", r, None, FALSE, 0)
                /\ UNCHANGED <<config, sample_points, generation_timestamp,
                               network_type, road_types>>
           ELSE IF q # "ok"
           THEN /\ lastOp' = Op("construct", RoadInstance, NoArgs, "ValueError", q,
                                None, FALSE, 0)
                /\ UNCHANGED <<config, sample_points, generation_timestamp,
                               network_type, road_types>>
           ELSE /\ lastOp' = Op("construct", RoadInstance, NoArgs, "ok", "ok",
                                None, FALSE, 0)
                /\ Store(RoadInstance,
                         Inst(Some(SamplingConfig(spacing, crs, seed)), None, None))
                /\ network_type' = Some(nt)
                /\ road_types' = rt
    /\ UNCHANGED <<np_seed, road_graph>>
    /\ UNCHANGED performanceVars

\* strategy.generate(b) on the road instance; fetched is the provider's answer
GenerateRoad(b, t, fetched) ==
    /\ Constructed(RoadInstance)
    /\ \E r \in {RoadGenerate(StateOf(RoadInstance), Get(network_type), road_types,
                                road_graph, b, t, np_seed, fetched)} :
           /\ Store(RoadInstance, r.st)
           /\ np_seed' = r.seed
           /\ road_graph' = r.graph
           /\ lastOp' = Op("generate", RoadInstance, Args(Some(b), Some(fetched)),
                           r.kind, r.reason, r.ret, r.provider_called, 0)
    /\ UNCHANGED <<network_type, road_types>>
    /\ UNCHANGED performanceVars

\* strategy.calculate_road_network_metrics()
CalculateRoadNetworkMetricsCall ==
    /\ Constructed(RoadInstance)
    /\ \E r \in {CalculateRoadNetworkMetrics(StateOf(RoadInstance),
                                              Get(network_type), road_graph)} :
           lastOp' = Op("calculate_road_network_metrics", RoadInstance, NoArgs,
                        r[1], r[2], r[3], FALSE, 0)
    /\ UNCHANGED <<config, sample_points, generation_timestamp, np_seed,
                   network_type, road_types, road_graph>>
    /\ UNCHANGED performanceVars

-----------------------------------------------------------------------------
(* Actions on the svipro grid strategy *)

\* svipro GridSampling(SamplingConfig(spacing, crs, seed))
LegacyConstruct(spacing, crs, seed) ==
    /\ ~Constructed(LegacyInstance)
    /\ LET r == ConfigValidate(spacing, crs, seed)
       IN  IF r # "ok"
           THEN /\ lastOp' = Op("construct", LegacyInstance, NoArgs, "ValueError", r,
                                None, FALSE, 0)
                /\ UNCHANGED <<config, sample_points, generation_timestamp>>
           ELSE /\ lastOp' = Op("construct", LegacyInstance, NoArgs, "ok", "ok",
                                None, FALSE, 0)
                /\ Store(LegacyInstance,
                         Inst(Some(SamplingConfig(spacing, crs, seed)), None, None))
    /\ UNCHANGED <<np_seed, network_type, road_types, road_graph>>
    /\ UNCHANGED performanceVars

\* strategy.generate(b) on the svipro grid strategy
LegacyGenerate(b, t) ==
    /\ Constructed(LegacyInstance)
    /\ LegacyValidateBoundary(b)[1] = "ok" =>
           LegacyTotalPotential(Get(config[LegacyInstance]), b) <= MaxLattice
    /\ \E r \in {LegacyGridGenerate(StateOf(LegacyInstance), b, t, np_seed)} :
           /\ Store(LegacyInstance, r.st)
           /\ np_seed' = r.seed
           /\ lastOp' = Op("generate", LegacyInstance, Args(Some(b), None),
                           r.kind, r.reason, None, FALSE, 0)
    /\ UNCHANGED <<network_type, road_types, road_graph>>
    /\ UNCHANGED performanceVars

\* strategy.optimize_spacing_for_target_n(b, target_n, min_spacing, max_spacing)
\* on the svipro grid strategy
LegacyOptimize(b, t, target_n, range) ==
    /\ Constructed(LegacyInstance)
    /\ \E r \in {LegacyOptimizeSpacing(StateOf(LegacyInstance), b, t, np_seed,
                                         target_n, range[1], range[2])} :
           /\ r.kind # "beyond"
           /\ Store(LegacyInstance, r.st)
           /\ np_seed' = r.seed
           /\ lastOp' = Op("optimize", LegacyInstance,
                           OptimizeArgs(b, target_n, range[1], range[2]),
                           r.kind, r.reason, None, FALSE, r.trials)
    /\ UNCHANGED <<network_type, road_types, road_graph>>
    /\ UNCHANGED performanceVars

\* strategy.calculate_coverage_metrics() on the svipro grid strategy
LegacyCalculateCoverageMetrics(nan_box) ==
    /\ Constructed(LegacyInstance)
    /\ \E r \in {LegacyCoverageMetrics(StateOf(LegacyInstance), nan_box)} :
           lastOp' = Op("calculate_coverage_metrics", LegacyInstance, NoArgs,
                        r[1], r[2], r[3], FALSE, 0)
    /\ UNCHANGED <<config, sample_points, generation_timestamp, np_seed,
                   network_type, road_types, road_graph>>
    /\ UNCHANGED performanceVars

-----------------------------------------------------------------------------
(* The program: a caller builds one strategy, grid or road, and uses it.    *)
(* Strategy instances share no state the core reads, so one instance per    *)
(* behaviour loses no interleaving.                                         *)

NextGrid ==
    \/ \E s \in SpacingInputs, c \in CrsInputs, d \in SeedInputs :
           /\ ~Constructed(RoadInstance) /\ ~Constructed(LegacyInstance)
           /\ ConstructGrid("g1", s, c, d)
    \/ \E b \in BoundaryInputs, t \in Timestamps : Generate("g1", b, t)

NextRoad ==
    \/ \E s \in RoadSpacingInputs, c \in RoadCrsInputs, d \in SeedInputs,
          nt \in NetworkTypeInputs, rt \in RoadTypesInputs :
           /\ ~Constructed("g1") /\ ~Constructed(LegacyInstance)
           /\ ConstructRoad(s, c, d, nt, rt)
    \/ \E b \in RoadBoundaries, t \in Timestamps, f \in FetchInputs :
           GenerateRoad(b, t, f)
    \/ \E b \in InvalidBoundaries, t \in Timestamps, f \in InvalidFetchInputs :
           GenerateRoad(b, t, f)
    \/ CalculateRoadNetworkMetricsCall

NextLegacy ==
    \/ \E s \in LegacySpacingInputs :
           /\ ~Constructed("g1") /\ ~Constructed(RoadInstance)
           /\ LegacyConstruct(s, "EPSG:3857", 42)
    \/ \E b \in LegacyBoundaries, t \in Timestamps : LegacyGenerate(b, t)
    \/ \E nan_box \in BOOLEAN : LegacyCalculateCoverageMetrics(nan_box)

Next ==
    \/ NextGrid
    \/ NextRoad
    \/ NextLegacy
    \/ \E i \in {"g1", RoadInstance} : Queries(i)
    \/ \E i \in {"g1", RoadInstance} : GetConfigCall(i)
    \/ \E i \in {"g1", RoadInstance}, s \in CallerSpacingInputs : CallerMutates(i, s)

Spec == Init /\ [][Next]_vars

-----------------------------------------------------------------------------
(* Sample ids: the rows of generate() runs, and the id format on indices    *)
(* beyond the lattices and walks the runs above reach. The formats read no  *)
(* strategy state, so they are tried before a strategy is constructed.      *)

\* the ids generate() on a grid strategy gives rows (i1, j1) and (i2, j2)
FormatGridIds(i1, j1, i2, j2) ==
    /\ lastOp' = Op("format_grid_ids", "", NoArgs, "ok", "ok",
                    Some([index |-> <<<<i1, j1>>, <<i2, j2>>>>,
                          ids |-> <<GridSampleId(GridStrategyName, i1, j1),
                                    GridSampleId(GridStrategyName, i2, j2)>>]),
                    FALSE, 0)
    /\ UNCHANGED <<config, sample_points, generation_timestamp, np_seed,
                   network_type, road_types, road_graph>>
    /\ UNCHANGED performanceVars

\* the ids generate() on a road strategy gives its n1-th and n2-th points
FormatRoadIds(n1, n2) ==
    /\ lastOp' = Op("format_road_ids", "", NoArgs, "ok", "ok",
                    Some([index |-> <<n1, n2>>,
                          ids |-> <<RoadSampleId(RoadStrategyName, n1),
                                    RoadSampleId(RoadStrategyName, n2)>>]),
                    FALSE, 0)
    /\ UNCHANGED <<config, sample_points, generation_timestamp, np_seed,
                   network_type, road_types, road_graph>>
    /\ UNCHANGED performanceVars

NextIds ==
    \/ ~Constructed(RoadInstance) /\ ConstructGrid("g1", M(50), "EPSG:3857", 42)
    \/ \E b \in TwinBoundaries, t \in Timestamps : Generate("g1", b, t)
    \/ \E rt \in RoadTypesInputs :
           ~Constructed("g1") /\ ConstructRoad(M(100), "EPSG:3857", 42, "all", rt)
    \/ \E b \in RoadBoundaries, t \in Timestamps, f \in FetchInputs :
           GenerateRoad(b, t, f)
    \/ \E i1 \in GridIndexInputs, j1 \in GridIndexInputs,
          i2 \in GridIndexInputs, j2 \in GridIndexInputs :
           ~Constructed("g1") /\ ~Constructed(RoadInstance)
               /\ FormatGridIds(i1, j1, i2, j2)
    \/ \E n1 \in RoadCountInputs, n2 \in RoadCountInputs :
           ~Constructed("g1") /\ ~Constructed(RoadInstance) /\ FormatRoadIds(n1, n2)

SpecIds == Init /\ [][NextIds]_vars

-----------------------------------------------------------------------------
(* One grid strategy under the spacing optimizer *)

NextOptimize ==
    \/ \E s \in OptimizeSpacingInputs, c \in OptimizeCrsInputs, d \in SeedInputs :
           ~Constructed(LegacyInstance) /\ ConstructGrid("g1", s, c, d)
    \/ \E s \in LegacySpacingInputs :
           ~Constructed("g1") /\ LegacyConstruct(s, "EPSG:3857", 42)
    \/ \E t \in Timestamps, n \in LegacyTargetInputs, r \in LegacyRangeInputs :
           LegacyOptimize(SmallBox, t, n, r)
    \/ \E b \in OptimizeBoundaries, t \in Timestamps : Generate("g1", b, t)
    \/ \E b \in OptimizeBoundaries, t \in Timestamps, n \in TargetInputs,
          r \in RangeInputs : Optimize("g1", b, t, n, r)
    \/ Queries("g1")

SpecOptimize == Init /\ [][NextOptimize]_vars

-----------------------------------------------------------------------------
(* Two grid strategies run side by side *)

NextTwin ==
    \/ \E i \in GridInstances, s \in TwinSpacingInputs, c \in TwinCrsInputs,
          d \in TwinSeedInputs : ConstructGrid(i, s, c, d)
    \/ \E i \in GridInstances, b \in TwinBoundaries, t \in Timestamps :
           Generate(i, b, t)

SpecTwin == Init /\ [][NextTwin]_vars

-----------------------------------------------------------------------------
(* Threads sharing one DiskCache *)

\* a thread calls a method of the shared cache and reaches its with statement
CacheCall(t, c) ==
    /\ calls[t].pc = "idle"
    /\ calls' = [calls EXCEPT ![t] =
                    [pc |-> "lock", op |-> c.op, key |-> c.key, value |-> c.value,
                     ret |-> "", at |-> "",
                     prev |-> [op |-> calls[t].op, key |-> calls[t].key,
                               value |-> calls[t].value]]]
    /\ UNCHANGED <<cache_files, metadata, lock, map_run>>
    /\ UNCHANGED samplingVars

\* with self.lock: threading.Lock.acquire() returns once the lock is free,
\* whichever thread holds it
AcquireLock(t) ==
    /\ calls[t].pc \in {"lock", "relock"}
    /\ IsNone(lock)
    /\ lock' = Some(t)
    /\ calls' = [calls EXCEPT ![t].pc = IF @ = "lock" THEN "locked" ELSE "relocked"]
    /\ UNCHANGED <<cache_files, metadata, map_run>>
    /\ UNCHANGED samplingVars

\* the thread holding the lock runs its method up to the return, which leaves
\* the with block and releases the lock, or up to a call of _save_metadata()
\* or self.delete(), which wait for the lock
RunLocked(t, now) ==
    /\ calls[t].pc \in {"locked", "relocked"}
    /\ \A k \in CacheKeys :
           IF IsNone(metadata[k]) THEN TRUE ELSE Get(metadata[k]).last_access <= now
    /\ \E r \in {IF calls[t].pc = "locked"
                 THEN LockedBody(cache_files, metadata, calls[t], now)
                 ELSE AfterRelock(cache_files, metadata, calls[t])} :
           /\ cache_files' = r.files
           /\ metadata' = r.metadata
           /\ lock' = IF r.next = "return" \/ calls[t].pc = "relocked" THEN None ELSE lock
           /\ calls' = [calls EXCEPT ![t].pc = IF r.next = "return" THEN "idle" ELSE "relock",
                                     ![t].ret = r.ret, ![t].at = r.at]
    /\ UNCHANGED map_run
    /\ UNCHANGED samplingVars

NextCache ==
    \/ \E t \in Threads, c \in CacheCallInputs : CacheCall(t, c)
    \/ \E t \in Threads : AcquireLock(t)
    \/ \E t \in Threads, now \in CacheTimes : RunLocked(t, now)

\* every thread inside a call is scheduled again, and a thread waiting for
\* the lock gets it if the lock is free again and again
SpecCache ==
    /\ Init /\ [][NextCache]_vars
    /\ \A t \in Threads : SF_vars(AcquireLock(t))
    /\ \A t \in Threads : \A now \in CacheTimes : WF_vars(RunLocked(t, now))

-----------------------------------------------------------------------------
(* One ParallelProcessor.map call at a time and the worker processes of its pool *)

\* ParallelProcessor.map up to the submission of the tasks
MapCall(items, n_workers) ==
    /\ map_run.pc \in {"idle", "done"}
    /\ LET run == [NoMap EXCEPT !.items = items, !.n_workers = n_workers]
       IN  map_run' =
               IF Len(items) = 0
               THEN [run EXCEPT !.pc = "done", !.outcome = "returned"]
               ELSE IF Len(items) < n_workers THEN MapSequential(run)
               ELSE [run EXCEPT !.pc = "collect",
                                !.futures = [i \in 1..Len(items) |-> "pending"],
                                !.results = [i \in 1..Len(items) |-> None]]
    /\ UNCHANGED <<cache_files, metadata, lock, calls>>
    /\ UNCHANGED samplingVars

\* a free worker process of the pool takes a submitted task
WorkerStart(idx) ==
    /\ map_run.pc \in {"collect", "shutdown"}
    /\ idx \in 1..Len(map_run.futures)
    /\ map_run.futures[idx] = "pending"
    /\ Cardinality(Running(map_run)) < map_run.n_workers
    /\ map_run' = [map_run EXCEPT !.futures[idx] = "running"]
    /\ UNCHANGED <<cache_files, metadata, lock, calls>>
    /\ UNCHANGED samplingVars

\* a worker process finishes its task: the future holds func's value or the
\* exception func raised
WorkerFinish(idx) ==
    /\ map_run.pc \in {"collect", "shutdown"}
    /\ idx \in 1..Len(map_run.futures)
    /\ map_run.futures[idx] = "running"
    /\ map_run' = [map_run EXCEPT !.futures[idx] =
                      IF Raises(map_run.items[idx]) THEN "raised" ELSE "done"]
    /\ UNCHANGED <<cache_files, metadata, lock, calls>>
    /\ UNCHANGED samplingVars

\* one turn of the loop over as_completed(future_to_index): a completed future
\* not yet yielded is yielded, its value stored at its index or its exception
\* raised again out of the with block
Collect(idx) ==
    /\ map_run.pc = "collect"
    /\ idx \in 1..Len(map_run.futures)
    /\ map_run.futures[idx] \in {"done", "raised"}
    /\ \A k \in 1..Len(map_run.order) : map_run.order[k] # idx
    /\ map_run' =
           IF map_run.futures[idx] = "raised"
           THEN [map_run EXCEPT !.pc = "shutdown", !.order = Append(@, idx)]
           ELSE LET results == StoreResult(map_run.results, map_run.order, idx,
                                           Func(map_run.items[idx]))
                    order == Append(map_run.order, idx)
                IN  IF Len(order) = Len(map_run.items)
                    THEN [map_run EXCEPT !.pc = "done", !.outcome = "returned",
                                         !.results = results, !.order = order,
                                         !.ret = results]
                    ELSE [map_run EXCEPT !.results = results, !.order = order]
    /\ UNCHANGED <<cache_files, metadata, lock, calls>>
    /\ UNCHANGED samplingVars

\* ProcessPoolExecutor.__exit__ after the raise: shutdown(wait=True) returns
\* when every submitted task has run, then the exception leaves map()
Shutdown ==
    /\ map_run.pc = "shutdown"
    /\ \A i \in 1..Len(map_run.futures) : map_run.futures[i] \in {"done", "raised"}
    /\ map_run' = [map_run EXCEPT !.pc = "done", !.outcome = "raised"]
    /\ UNCHANGED <<cache_files, metadata, lock, calls>>
    /\ UNCHANGED samplingVars

NextMap ==
    \/ \E items \in ItemLists, n \in WorkerInputs : MapCall(items, n)
    \/ \E idx \in 1..MaxItems : WorkerStart(idx)
    \/ \E idx \in 1..MaxItems : WorkerFinish(idx)
    \/ \E idx \in 1..MaxItems : Collect(idx)
    \/ Shutdown

SpecMap == Init /\ [][NextMap]_vars

-----------------------------------------------------------------------------
(* Properties *)

\* the last call, when it was generate(): its instance, boundary, provider
\* answer and the point set it stored
LastGenerate == lastOp.op = "generate" /\ lastOp.inst \in SspInstances
LastBoundary == Get(lastOp.args.boundary)
LastFetched == Get(lastOp.args.fetched)
LastConfig == Get(config[lastOp.inst])
LastPoints == Get(sample_points[lastOp.inst])

\* C1: every point a successful GridSampling.generate() or
\* RoadNetworkSampling.generate() returns lies strictly inside the boundary
\* it was called with; no candidate on the boundary's edge or outside it appears
C1_Containment ==
    (LastGenerate /\ lastOp.kind = "ok") =>
        \A k \in 1..Len(LastPoints) :
            Contains(LastBoundary, LastPoints[k].x, LastPoints[k].y)

\* a road run whose first and last candidates of an edge sit on the boundary
C1_Witness ==
    /\ LastGenerate /\ lastOp.kind = "ok" /\ lastOp.inst = RoadInstance
    /\ LastBoundary = ScenarioBox /\ LastFetched = Some(CrossGraph)
    /\ Len(LastPoints) > 0

\* total length of the filtered edges of the graph the provider returned
LastTotalLength == TotalLength(SampledGraph(Get(LastFetched), road_types))

\* C2: the number of points RoadNetworkSampling.generate() returns never
\* exceeds max(1, floor(total length of the filtered edges / spacing))
C2_Budget ==
    (LastGenerate /\ lastOp.kind = "ok" /\ lastOp.inst = RoadInstance) =>
        Len(LastPoints) <= Max(1, LastTotalLength \div LastConfig.spacing)

\* C2 as stated: the count never exceeds floor(total length / spacing)
C2_Original ==
    (LastGenerate /\ lastOp.kind = "ok" /\ lastOp.inst = RoadInstance) =>
        Len(LastPoints) <= LastTotalLength \div LastConfig.spacing

\* a run on which the budget cut the walk short: 11 candidates inside, 10 kept
C2_Witness ==
    /\ LastGenerate /\ lastOp.kind = "ok" /\ lastOp.inst = RoadInstance
    /\ LastFetched = Some(InnerGraph)
    /\ Len(LastPoints) = LastTotalLength \div LastConfig.spacing

\* a point without its timestamp field
StripTimestamp(p) == [p EXCEPT !.timestamp = 0]
\* the inputs C3 fixes: boundary, spacing and CRS of an instance's last run
RunInputs(i) ==
    <<Get(config[i]).boundary, Get(config[i]).spacing, Get(config[i]).crs>>

\* C3: two grid strategies that ran generate() with the same boundary, spacing
\* and CRS hold identical point sequences up to the timestamp field, whatever
\* their seeds are
C3_Deterministic ==
    (/\ ~IsNone(sample_points["g1"]) /\ ~IsNone(sample_points["g2"])
     /\ RunInputs("g1") = RunInputs("g2")) =>
        LET p == Get(sample_points["g1"])
            q == Get(sample_points["g2"])
        IN  /\ Len(p) = Len(q)
            /\ \A k \in 1..Len(p) : StripTimestamp(p[k]) = StripTimestamp(q[k])

\* two instances with different seeds that ran at different times on the same
\* inputs and hold points
C3_Witness ==
    /\ ~IsNone(sample_points["g1"]) /\ ~IsNone(sample_points["g2"])
    /\ RunInputs("g1") = RunInputs("g2")
    /\ Get(config["g1"]).seed # Get(config["g2"]).seed
    /\ generation_timestamp["g1"] # generation_timestamp["g2"]
    /\ Len(Get(sample_points["g1"])) > 0

\* the run of scenario A: the 1000 m square, spacing 100 m, a metre CRS
ScenarioA ==
    /\ LastGenerate /\ lastOp.kind = "ok" /\ lastOp.inst \in GridInstances
    /\ LastBoundary = ScenarioBox
    /\ LastConfig.spacing = M(100)
    /\ LastConfig.crs = "EPSG:3857"

\* C4: scenario A evaluates an 11 by 11 candidate lattice and returns exactly
\* the 81 points of its 9 by 9 interior
C4_ScenarioA ==
    ScenarioA =>
        /\ GridNx(LastConfig, LastBoundary) = 11
        /\ GridNy(LastConfig, LastBoundary) = 11
        /\ Len(LastPoints) = 81

\* C4 as stated: 11 by 11 candidates and between 100 and 121 points
C4_Original ==
    ScenarioA =>
        /\ GridNx(LastConfig, LastBoundary) = 11
        /\ GridNy(LastConfig, LastBoundary) = 11
        /\ Len(LastPoints) >= 100 /\ Len(LastPoints) <= 121

C4_Witness == ScenarioA /\ Len(LastPoints) > 0

\* C5: a generate() call with a boundary that is no polygon, invalid, empty or
\* of zero area fails and changes neither the recorded boundary, the
\* timestamp, the stored points nor the stored road graph, and never calls
\* the provider
C5_FailsFirst ==
    [][(/\ lastOp'.op = "generate" /\ lastOp'.inst \in SspInstances
        /\ Get(lastOp'.args.boundary) \in InvalidBoundaries) =>
            /\ lastOp'.kind # "ok"
            /\ ~lastOp'.provider_called
            /\ UNCHANGED <<config, sample_points, generation_timestamp, road_graph>>
      ]_vars

\* a rejected call on a road strategy that holds points and a graph
C5_Witness ==
    /\ LastGenerate /\ lastOp.inst = RoadInstance
    /\ LastBoundary \in InvalidBoundaries
    /\ ~IsNone(sample_points[RoadInstance]) /\ ~IsNone(road_graph)

\* C6: generate() reports a boundary of the wrong type as a type error and an
\* invalid, an empty and a zero-area polygon as boundary errors with three
\* different reasons; the checks run in the order type, validity, emptiness,
\* zero area and the first that fails decides (the bowtie and the empty
\* polygon have zero area too)
C6_Reasons ==
    (LastGenerate /\ LastBoundary \in InvalidBoundaries) =>
        /\ LastBoundary = NotAPolygon => lastOp.kind = "TypeError"
        /\ LastBoundary = Bowtie =>
               /\ lastOp.kind = "BoundaryError"
               /\ lastOp.reason = "boundary is not a valid polygon"
        /\ LastBoundary = EmptyPolygon =>
               /\ lastOp.kind = "BoundaryError"
               /\ lastOp.reason = "boundary cannot be empty"
        /\ LastBoundary = ZeroAreaPolygon =>
               /\ lastOp.kind = "BoundaryError"
               /\ lastOp.reason = "boundary must have non-zero area"

\* C6 as stated: all four are reported as the same boundary-error kind
C6_Original ==
    (LastGenerate /\ LastBoundary \in InvalidBoundaries) =>
        lastOp.kind = "BoundaryError"

\* the empty polygon, which fails the emptiness and the zero-area check
C6_Witness ==
    LastGenerate /\ LastBoundary = EmptyPolygon /\ lastOp.kind = "BoundaryError"

\* the reasons of RoadNetworkSampling.generate's four failures
DownloadFailed == "Failed to download road network from OpenStreetMap"
NoNetwork == "No road network found within the boundary"
NoMatch == "No road edges matching road_types"
NoPoints == "No sample points could be generated within boundary"

C8_ConfigInvariant ==
    \A i \in Instances :
        Constructed(i) =>
            /\ Get(config[i]).spacing > 0
            /\ Get(config[i]).crs # ""
            /\ Get(config[i]).seed >= 0

\* C9 as stated: coverage metrics of a zero-point result do not fail and
\* report n_points 0, density 0.0 and the area of the recorded boundary
C9_EmptyMetrics ==
    (/\ lastOp.op = "calculate_coverage_metrics"
     /\ sample_points[lastOp.inst] = Some(<<>>)) =>
        /\ lastOp.kind = "ok"
        /\ Get(lastOp.ret).n_points = 0
        /\ Get(lastOp.ret).density_pts_per_km2 = 0
        /\ Get(lastOp.ret).area_km2 =
               RoundArea(ExtentArea(LastConfig.crs, Bounds(Get(LastConfig.boundary)),
                                    Area(Get(LastConfig.boundary))).m2)

QueryOps == {"get_sample_points", "calculate_coverage_metrics", "to_geojson"}

\* C10: sample points appear on an instance only by a generate() call that
\* succeeds, and while there are none, get_sample_points(),
\* calculate_coverage_metrics() and to_geojson() fail with the "no sample
\* points generated yet" reason and change nothing
C10_QueriesBeforeGenerate ==
    [][/\ (/\ lastOp'.op \in QueryOps /\ lastOp'.inst \in SspInstances
           /\ IsNone(sample_points[lastOp'.inst])) =>
               /\ lastOp'.kind # "ok"
               /\ lastOp'.reason = NoPointsReason
               /\ UNCHANGED <<config, sample_points, generation_timestamp, np_seed,
                              network_type, road_types, road_graph>>
       /\ \A i \in SspInstances :
              (IsNone(sample_points[i]) /\ ~IsNone(sample_points'[i])) <=>
                  /\ IsNone(sample_points[i])
                  /\ lastOp'.op = "generate" /\ lastOp'.inst = i /\ lastOp'.kind = "ok"
      ]_vars

\* a query refused after a generate() call that failed past validation
C10_Witness ==
    /\ lastOp.op \in QueryOps /\ lastOp.inst = RoadInstance
    /\ lastOp.reason = NoPointsReason
    /\ ~IsNone(generation_timestamp[RoadInstance])
    /\ IsNone(sample_points[RoadInstance])

\* C11 as stated: with a road-type filter, the highway field of every point
\* generate() returns is one of the tags of the filter
C11_FilterTags ==
    (/\ LastGenerate /\ lastOp.kind = "ok" /\ lastOp.inst = RoadInstance
     /\ ~IsNone(road_types)) =>
        \A k \in 1..Len(LastPoints) :
            /\ LastPoints[k].highway[1] = "str"
            /\ LastPoints[k].highway[2] \in Get(road_types)

\* C12 as stated: when optimize_spacing_for_target_n() returns, config.spacing
\* is the spacing recorded on the returned points and differs from the value
\* it had before the call
C12_OptimalSpacing ==
    [][(lastOp'.op = "optimize" /\ lastOp'.kind = "ok") =>
           LET i == lastOp'.inst
               pts == Get(sample_points'[i])
           IN  /\ \A k \in 1..Len(pts) : pts[k].spacing_m = Get(config'[i]).spacing
               /\ Get(config'[i]).spacing # Get(config[i]).spacing
      ]_vars


\* the three cases optimize_spacing_for_target_n() is to reject before searching
FailFastCase(cfg, a) ==
    \/ a.target_n <= 0
    \/ a.min_spacing >= a.max_spacing
    \/ /\ a.min_spacing > 0
       /\ IsPolygon(Get(a.boundary)) /\ IsValid(Get(a.boundary))
       /\ ~IsEmpty(Get(a.boundary)) /\ ~AreaIsZero(Get(a.boundary))
       /\ a.target_n > MaxPossiblePoints(cfg, Get(a.boundary), a.min_spacing)

\* C13 as stated: an optimizer call with target_n <= 0, min_spacing >=
\* max_spacing or target_n above the count achievable at min_spacing fails
\* without a generate run and leaves the configuration and the points alone
C13_FailFast ==
    [][(/\ lastOp'.op = "optimize"
        /\ FailFastCase(Get(config[lastOp'.inst]), lastOp'.args)) =>
           /\ lastOp'.kind # "ok"
           /\ lastOp'.trials = 0
           /\ UNCHANGED <<config, sample_points>>
      ]_vars

\* the same statement restricted to the ssp strategy
C13_FailFastSsp ==
    [][(/\ lastOp'.op = "optimize" /\ lastOp'.inst \in GridInstances
        /\ FailFastCase(Get(config[lastOp'.inst]), lastOp'.args)) =>
           /\ lastOp'.kind # "ok"
           /\ lastOp'.trials = 0
           /\ UNCHANGED <<config, sample_points>>
      ]_vars


\* C14 as stated: when a caller changes in place what get_sample_points(),
\* get_config() or calculate_coverage_metrics() handed back, the strategy's
\* stored points and configuration stay as they were, and so does what
\* calculate_coverage_metrics() reports
C14_NoLiveReferences ==
    [][lastOp'.op = "caller_mutation" =>
           /\ UNCHANGED <<config, sample_points>>
           /\ \A i \in SspInstances :
                  (lastOp.inst = i /\ ~IsNone(sample_points[i])) =>
                      CoverageMetrics(Inst(config'[i], sample_points'[i],
                                           generation_timestamp'[i]))
                          = CoverageMetrics(StateOf(i))
      ]_vars


HalvedRun(i, j) ==
    /\ ~IsNone(sample_points[i]) /\ ~IsNone(sample_points[j])
    /\ Get(config[i]).boundary = Get(config[j]).boundary
    /\ Get(config[i]).crs = Get(config[j]).crs
    /\ 2 * Get(config[j]).spacing = Get(config[i]).spacing

\* the boundary's extent holds at least two tiles of side a along each axis
MultipleTiles(b, a) ==
    /\ b.maxx - b.minx >= 2 * a
    /\ b.maxy - b.miny >= 2 * a

\* C16: on one boundary, GridSampling.generate() with spacing s/2 returns at
\* least as many points as with spacing s, and strictly more when the boundary
\* holds multiple tiles at spacing s
C16_Halving ==
    \A i \in GridInstances, j \in GridInstances :
        HalvedRun(i, j) =>
            LET b == Get(Get(config[i]).boundary)
                n == Len(Get(sample_points[i]))
                m == Len(Get(sample_points[j]))
            IN  /\ m >= n
                /\ MultipleTiles(b, ActualSpacing(Get(config[i]), b)) => m > n

\* a boundary of several tiles was sampled at s and at s/2, and the coarse run
\* returned points
C16_Witness ==
    /\ HalvedRun("g1", "g2")
    /\ Len(Get(sample_points["g1"])) > 0
    /\ MultipleTiles(Get(Get(config["g1"]).boundary),
                     ActualSpacing(Get(config["g1"]), Get(Get(config["g1"]).boundary)))


\* C17: a get_sample_points() that follows a successful generate() on the same
\* strategy returns exactly the table that generate() returned, however many
\* generate() calls came before: the earlier set is replaced, not extended
C17_Replaced ==
    [][(/\ lastOp.op = "generate" /\ lastOp.kind = "ok"
        /\ lastOp.inst \in SspInstances
        /\ lastOp'.op = "get_sample_points" /\ lastOp'.inst = lastOp.inst) =>
           /\ lastOp'.kind = "ok"
           /\ lastOp'.ret = lastOp.ret
      ]_vars

\* get_sample_points() has answered with a non-empty table whose rows carry
\* the later clock reading, the one the strategy's last run was stamped with
C17_Witness ==
    /\ lastOp.op = "get_sample_points" /\ lastOp.kind = "ok"
    /\ Len(Get(lastOp.ret)) > 0
    /\ generation_timestamp[lastOp.inst] = Some(2)
    /\ Get(lastOp.ret)[1].timestamp = 2


\* the rows of a table carry pairwise distinct sample ids
DistinctIds(pts) ==
    \A k \in 1..Len(pts), l \in 1..Len(pts) :
        k # l => pts[k].sample_id # pts[l].sample_id

\* C18: the sample ids within the table one generate() call returns are
\* pairwise distinct, and the id formats keep different grid indices and
\* different road point counts apart also above 9999 and above 99999
C18_DistinctIds ==
    /\ (LastGenerate /\ lastOp.kind = "ok") => DistinctIds(Get(lastOp.ret))
    /\ lastOp.op \in {"format_grid_ids", "format_road_ids"} =>
           (Get(lastOp.ret).index[1] # Get(lastOp.ret).index[2] =>
                Get(lastOp.ret).ids[1] # Get(lastOp.ret).ids[2])

\* two different rows one of whose indices has five digits, and whose last four
\* digits agree, have been given their ids
C18_Witness ==
    /\ lastOp.op = "format_grid_ids"
    /\ Get(lastOp.ret).index = <<<<1, 12>>, <<10001, 12>>>>


\* the last call was a calculate_coverage_metrics() that returned the record
\* of a non-empty point set
LastMetricsNonEmpty ==
    /\ lastOp.op = "calculate_coverage_metrics" /\ lastOp.kind = "ok"
    /\ lastOp.inst \in SspInstances
    /\ Get(lastOp.ret).n_points > 0

\* C19 as stated: in the record of a non-empty point set the density is 0 when
\* the reported area_km2 is zero, and otherwise the rounded quotient of
\* n_points and the reported area_km2
C19_Original ==
    LastMetricsNonEmpty =>
        LET r == Get(lastOp.ret)
        IN  r.density_pts_per_km2 =
                IF r.area_km2 = 0 THEN 0
                ELSE RoundQuot(r.n_points * 10000, r.area_km2, 2)

\* C19, amended: the density is 0 when the extent of the points has no width
\* or no height, and otherwise is the rounded quotient of n_points and the
\* extent's area before that area is rounded to four decimals for area_km2
\* (stated for projected CRS, where the area is width times height)
C19_Density ==
    LastMetricsNonEmpty =>
        LET r == Get(lastOp.ret)
            w == r.bounds[3] - r.bounds[1]
            h == r.bounds[4] - r.bounds[2]
            m2 == AreaUnits(w, h)
        IN  /\ (w = 0 \/ h = 0) => r.density_pts_per_km2 = 0
            /\ (/\ w > 0 /\ h > 0 /\ ~MetricsIsGeographic(LastConfig.crs)
                /\ m2 > r.n_points \div 2 /\ m2 <= 10^8) =>
                   /\ r.density_pts_per_km2 = RoundQuot(r.n_points * 1000000, m2, 2)
                   /\ r.area_km2 = (m2 + 50) \div 100

\* the record of a small, non-empty point set reports area_km2 0.0 and a
\* density that is not zero
C19_Witness ==
    /\ LastMetricsNonEmpty
    /\ Get(lastOp.ret).area_km2 = 0
    /\ Get(lastOp.ret).density_pts_per_km2 > 0


RoadMetricsRaise ==
    /\ lastOp.op = "calculate_road_network_metrics" /\ lastOp.kind = "ValueError"


\* the edges generate() walked in its last run, in iteration order
LastSampledGraph == SampledGraph(Get(LastFetched), road_types)

\* C24 as stated: only the first edge visited is given the extra candidate, so
\* every point on a later edge sits at one of the max(1, floor(length /
\* spacing)) candidate positions of that edge, whether or not the first edge's
\* candidates were kept (for edges whose edge_id names one edge only)
C24_OneExtraPoint ==
    (LastGenerate /\ lastOp.kind = "ok" /\ lastOp.inst = RoadInstance) =>
        LET g == LastSampledGraph
        IN  \A k \in 2..Len(g.edges), p \in 1..Len(LastPoints) :
                (/\ LastPoints[p].edge_id = EdgeId(g, g.edges[k])
                 /\ \A l \in 1..Len(g.edges) :
                        l # k => EdgeId(g, g.edges[l]) # EdgeId(g, g.edges[k])) =>
                    LET len == EdgeLength(g, g.edges[k])
                        n == Max(1, TruncDiv(len, LastConfig.spacing))
                    IN  \E i \in 0..(n - 1) :
                            LastPoints[p].distance_along_edge = DistanceAlong(len, i, n)


\* C25: every point GridSampling.generate() returns lies at (minX + grid_x * s,
\* minY + grid_y * s), (minX, minY) being the lower-left corner of the
\* boundary's bounding box, s the spacing converted to CRS units and grid_x,
\* grid_y not negative; a point with indices (0, 0) lies at (minX, minY)
C25_LatticePositions ==
    (LastGenerate /\ lastOp.kind = "ok" /\ lastOp.inst \in GridInstances) =>
        LET b == LastBoundary
            s == convert_spacing_for_crs(LastConfig.spacing, LastConfig.crs, Some(b))
            pts == Get(lastOp.ret)
        IN  \A k \in 1..Len(pts) :
                /\ pts[k].grid_x >= 0 /\ pts[k].grid_y >= 0
                /\ pts[k].x = Bounds(b)[1] + pts[k].grid_x * s
                /\ pts[k].y = Bounds(b)[2] + pts[k].grid_y * s
                /\ (pts[k].grid_x = 0 /\ pts[k].grid_y = 0) =>
                       (pts[k].x = Bounds(b)[1] /\ pts[k].y = Bounds(b)[2])

\* a run in a geographic CRS, where the spacing is converted to degrees, has
\* returned a point off the first row and column of the lattice
C25_Witness ==
    /\ LastGenerate /\ lastOp.kind = "ok" /\ lastOp.inst \in GridInstances
    /\ MetricsIsGeographic(LastConfig.crs)
    /\ \E k \in 1..Len(Get(lastOp.ret)) :
           Get(lastOp.ret)[k].grid_x > 1 /\ Get(lastOp.ret)[k].grid_y > 1


\* the last call was an optimize_spacing_for_target_n() of an ssp grid
\* strategy that returned
LastOptimize ==
    lastOp.op = "optimize" /\ lastOp.kind = "ok" /\ lastOp.inst \in GridInstances

\* distance of trial k's point count from the target
TrialDiff(k) == Abs(lastOp.history[k].n - lastOp.args.target_n)

\* the earliest of the completed trials whose point count is closest to the target
BestTrial ==
    CHOOSE k \in 1..Len(lastOp.history) :
        /\ \A l \in 1..Len(lastOp.history) : TrialDiff(k) <= TrialDiff(l)
        /\ \A l \in 1..(k - 1) : TrialDiff(l) > TrialDiff(k)

\* C26: optimize_spacing_for_target_n() runs at most 20 generate() trials and
\* returns the set of the earliest trial whose count is closest to target_n;
\* that set is what the strategy holds afterwards, also when a later trial
\* produced another set
C26_BestTrial ==
    LastOptimize =>
        LET pts == Get(lastOp.ret)
        IN  /\ lastOp.trials <= OptimizeIterations
            /\ Len(lastOp.history) = lastOp.trials /\ lastOp.trials >= 1
            /\ Len(pts) = lastOp.history[BestTrial].n
            /\ \A k \in 1..Len(pts) :
                   pts[k].spacing_m = lastOp.history[BestTrial].spacing
            /\ sample_points[lastOp.inst] = lastOp.ret
            /\ GetSamplePoints(StateOf(lastOp.inst))[3] = lastOp.ret

\* the search ran all its trials, a later trial tied with the best one, and the
\* set returned is not the one the last trial produced
C26_Witness ==
    /\ LastOptimize /\ lastOp.trials = OptimizeIterations
    /\ BestTrial < OptimizeIterations
    /\ \E l \in (BestTrial + 1)..Len(lastOp.history) : TrialDiff(l) = TrialDiff(BestTrial)
    /\ Len(Get(lastOp.ret)) > 0
    /\ lastOp.history[OptimizeIterations].spacing # Get(lastOp.ret)[1].spacing_m


\* C27 as stated: a RoadNetworkSampling.generate() that fails after boundary
\* validation (download failure, empty graph, no matching edge, no point)
\* leaves the stored points, the stored graph, the recorded boundary and the
\* generation timestamp as the last successful call left them
C27_SameCall ==
    [][(/\ lastOp'.op = "generate" /\ lastOp'.inst = RoadInstance
        /\ lastOp'.provider_called /\ lastOp'.kind # "ok") =>
           /\ sample_points'[RoadInstance] = sample_points[RoadInstance]
           /\ road_graph' = road_graph
           /\ Get(config'[RoadInstance]).boundary = Get(config[RoadInstance]).boundary
           /\ generation_timestamp'[RoadInstance] = generation_timestamp[RoadInstance]
      ]_vars


\* C28 as stated: whenever calculate_coverage_metrics() reports on the points
\* of a GridSampling, the CRS of the configuration is geographic for the
\* spacing conversion of generate() (the spacing in metres is converted to
\* degrees) exactly when it is geographic for the metrics (the extent is
\* converted from degrees to metres), whatever the letter case of the CRS
C28_SameCrsTreatment ==
    (LastMetricsNonEmpty /\ lastOp.inst = "g1") =>
        ((convert_spacing_for_crs(LastConfig.spacing, LastConfig.crs,
                                  LastConfig.boundary) # LastConfig.spacing)
           <=> MetricsIsGeographic(LastConfig.crs))


\* C30 as stated: the n_edges and total_road_length_km that
\* calculate_road_network_metrics() reports right after a successful
\* generate() are the edge count and the total length of the undirected,
\* type-filtered graph whose total length gave that run its point budget
C30_SameEdgeSet ==
    [][(/\ lastOp.op = "generate" /\ lastOp.inst = RoadInstance
        /\ lastOp.kind = "ok"
        /\ lastOp'.op = "calculate_road_network_metrics"
        /\ lastOp'.kind = "ok") =>
           /\ Get(lastOp'.ret).n_edges = NumberOfEdges(LastSampledGraph)
           /\ Get(lastOp'.ret).total_road_length_km =
                  TotalLength(LastSampledGraph) \div 1000
      ]_vars


\* C21: when ParallelProcessor.map has finished, it has raised if func raises
\* on any item, and otherwise has returned a list as long as items whose i-th
\* entry is func(items[i]), on the sequential path and on the pool path,
\* whatever order the futures completed in
C21_MapInOrder ==
    map_run.pc = "done" =>
        IF \E i \in 1..Len(map_run.items) : Raises(map_run.items[i])
        THEN map_run.outcome = "raised"
        ELSE /\ map_run.outcome = "returned"
             /\ Len(map_run.ret) = Len(map_run.items)
             /\ \A i \in 1..Len(map_run.items) :
                    map_run.ret[i] = Some(Func(map_run.items[i]))

\* a pool run over items with different values returned after a later item's
\* future was collected before an earlier item's
C21_Witness ==
    /\ map_run.pc = "done" /\ map_run.outcome = "returned"
    /\ Len(map_run.items) >= map_run.n_workers
    /\ \E k \in 1..(Len(map_run.order) - 1) :
           /\ map_run.order[k] > map_run.order[k + 1]
           /\ map_run.items[map_run.order[k]] # map_run.items[map_run.order[k + 1]]

C23_CallsComplete ==
    \A t \in Threads : (calls[t].pc # "idle") ~> (calls[t].pc = "idle")

\* C29 as stated: while no DiskCache call is in progress, a key has a metadata
\* entry exactly when its cache file exists
C29_MetadataMatchesFiles ==
    (\A t \in Threads : calls[t].pc = "idle") =>
        \A k \in CacheKeys : IsNone(metadata[k]) <=> IsNone(cache_files[k])

=============================================================================
